---- MODULE Spec2Model ----
(***************************************************************************)
(* Model of the publication fetch-cache-render scripts of the portfolio    *)
(* site: PublicationsFetcher (src/js_publications_Version2.js),            *)
(* InspirePublications (src/unnamed/part_002), the functional              *)
(* publications script (src/unnamed/part_003) and PublicationsDisplay      *)
(* (src/js/publications.js).                                               *)
(*                                                                         *)
(* JavaScript values are records tagged by t; an object carries its own    *)
(* properties in f, so that reading a property the object does not have    *)
(* gives undefined and reading a property of undefined throws, as in the   *)
(* source.  One action is one run of a handler between two awaits.         *)
(***************************************************************************)
EXTENDS Integers, Sequences, FiniteSets, TLC

(***************************************************************************)
(* Bounds of the model.                                                    *)
(***************************************************************************)
MaxPapers == 3
MaxCit == 3
MaxLoads == 2
MaxSeqs == 3
MaxTicks == 2
MaxSaves == 2
MaxAuthors == 6
MaxItems == 2
MaxRendered == 2

(***************************************************************************)
(* JavaScript values.                                                      *)
(***************************************************************************)
Undefined == [t |-> "undefined"]
Null == [t |-> "null"]
Num(n) == [t |-> "number", n |-> n]
Str(s) == [t |-> "string", s |-> s]
Arr(s) == [t |-> "array", items |-> s]
Obj(f) == [t |-> "object", f |-> f]
EmptyObj == Obj(<<>>)

\* v.k : the property k of v (undefined when v has no such property)
Get(v, k) == IF v.t = "object" /\ k \in DOMAIN v.f THEN v.f[k] ELSE Undefined

\* reading a property of v does not throw a TypeError
Readable(v) == v.t \notin {"undefined", "null"}

\* the truthiness of v, as in  if (v), !v, v || 0
Truthy(v) ==
    CASE v.t = "undefined" -> FALSE
      [] v.t = "null" -> FALSE
      [] v.t = "number" -> v.n # 0
      [] v.t = "string" -> v.s # ""
      [] OTHER -> TRUE

\* v.length of an array (callers check Readable and the type first)
Length(v) == Len(v.items)

\* v[0] of an array (undefined when the array is empty or v is no array)
First(v) == IF v.t = "array" /\ Len(v.items) >= 1 THEN v.items[1] ELSE Undefined

(***************************************************************************)
(* JSON.stringify / JSON.parse and localStorage items.  stringify leaves   *)
(* out the properties whose value is undefined; an item is absent          *)
(* (getItem gives null) or a text.                                         *)
(***************************************************************************)
RECURSIVE JsonValue(_)
JsonValue(v) ==
    CASE v.t = "object" ->
           Obj([k \in {j \in DOMAIN v.f : v.f[j].t # "undefined"} |-> JsonValue(v.f[k])])
      [] v.t = "array" ->
           Arr([i \in DOMAIN v.items |->
                  IF v.items[i].t = "undefined" THEN Null ELSE JsonValue(v.items[i])])
      [] OTHER -> v

NoItem == [t |-> "noitem"]
JsonStringify(v) == [t |-> "text", json |-> JsonValue(v)]
JsonParse(text) == text.json

(***************************************************************************)
(* calculateHIndex (functional script).                                    *)
(***************************************************************************)
\* paper.metadata.citation_count || 0
CitationCount(paper) ==
    LET c == Get(Get(paper, "metadata"), "citation_count")
    IN  IF Truthy(c) THEN c.n ELSE 0

\* s with x inserted before the first element smaller than x (s descending)
RECURSIVE InsertDesc(_, _)
InsertDesc(x, s) ==
    IF s = <<>> THEN <<x>>
    ELSE IF x >= Head(s) THEN <<x>> \o s
    ELSE <<Head(s)>> \o InsertDesc(x, Tail(s))

\* counts.sort((a, b) => b - a)
RECURSIVE SortDesc(_)
SortDesc(s) == IF s = <<>> THEN <<>> ELSE InsertDesc(Head(s), SortDesc(Tail(s)))

\* the for loop of calculateHIndex, from index i (1-based) with h so far
RECURSIVE HLoop(_, _, _)
HLoop(counts, i, h) ==
    IF i > Len(counts) THEN h
    ELSE IF counts[i] >= i THEN HLoop(counts, i + 1, i)
    ELSE h

CitationCountsOf(papers) == [i \in 1..Length(papers) |-> CitationCount(papers.items[i])]

\* calculateHIndex without the sort (a variant the properties must reject)
calculateHIndex_unsorted(papers) ==
    IF ~Truthy(papers) \/ Length(papers) = 0 THEN 0
    ELSE HLoop(CitationCountsOf(papers), 1, 0)

\* calculateHIndex
calculateHIndex(papers) ==
    IF ~Truthy(papers) \/ Length(papers) = 0 THEN 0
    ELSE HLoop(SortDesc(CitationCountsOf(papers)), 1, 0)

\* a publication record with the given citation count (Undefined: no count)
MkPaper(c) ==
    Obj([metadata |-> IF c.t = "undefined" THEN EmptyObj ELSE Obj([citation_count |-> c])])

(***************************************************************************)
(* The external API.  A fetch sequence is numbered by its id k; the        *)
(* literature endpoint answers it with the papers PapersOf(k) and the      *)
(* author endpoint with SummaryOf(k), so the data of two sequences always  *)
(* differ.  A call ends as one of Outcomes: a transport error, a           *)
(* non-success status, a body that is no JSON, a JSON body without the     *)
(* expected properties, or the expected body.                              *)
(***************************************************************************)
Outcomes == {"ok", "neterr", "status", "badjson", "badshape"}
Parsed(o) == o \in {"ok", "badshape"}

PapersOf(k) == Arr(<<MkPaper(Num(k + 1)), MkPaper(Num(k))>>)
SummaryOf(k) == Obj([citation_count |-> Num(2 * k + 1),
                     h_index |-> Num(calculateHIndex(PapersOf(k)))])
LiteratureBody(k, o) ==
    IF o = "ok" THEN Obj([hits |-> Obj([hits |-> PapersOf(k)])]) ELSE EmptyObj
AuthorBody(k, o) ==
    IF o = "ok" THEN Obj([metadata |-> Obj([citation_summary |-> SummaryOf(k)])])
    ELSE EmptyObj

(***************************************************************************)
(* The hardcoded fallback datasets.                                        *)
(***************************************************************************)
FallbackCounts == <<13, 5, 2>>
FallbackCitations == 20
FallbackHIndex == 2
FallbackPapers == Arr([i \in 1..Len(FallbackCounts) |-> MkPaper(Num(FallbackCounts[i]))])
FallbackSummary == Obj([citation_count |-> Num(FallbackCitations),
                        h_index |-> Num(FallbackHIndex)])

(***************************************************************************)
(* localStorage keys (the author id is the same in every script).          *)
(***************************************************************************)
PubKey == "inspire-publications-1908124"
AuthorKey == "inspire-author-1908124"
UpdatedKey == "inspire-last-updated-1908124"
PUBLICATIONS_CACHE_KEY == "publications_cache_v1"
Keys == {PubKey, AuthorKey, UpdatedKey, PUBLICATIONS_CACHE_KEY}

cacheExpiry == 86400000

Variants == {"PublicationsFetcher", "InspirePublications", "Functional",
             "PublicationsDisplay"}

(***************************************************************************)
(* The page regions.                                                       *)
(***************************************************************************)
Blank == [t |-> "blank"]
NoPublicationsFound == [t |-> "nopubs"]
ItemsShown(papers) == [t |-> "items", cits |-> CitationCountsOf(papers)]
StatsShown(n, c, h) == [t |-> "stats", pubs |-> n, citations |-> c, h |-> h]
TimeShown(at, pre) == [t |-> "time", at |-> at, preloaded |-> pre]
LoadingText == [t |-> "loadingtext"]

\* the outcome of a run of statements: the regions after it, and whether it threw
Done(u) == [ui |-> u, threw |-> FALSE]
Threw(u) == [ui |-> u, threw |-> TRUE]
AndThen(r, F(_)) == IF r.threw THEN r ELSE F(r.ui)

VARIABLES
    hInput,           \* calculateHIndex: the argument
    hOutput,          \* calculateHIndex: the value returned, once called
    hCalled,          \* calculateHIndex has been called
    rt,               \* the cache round trip under way
    fx,               \* the call of a formatting function under way
    sc,               \* the page view of the selected-citations script
    variant,          \* the script of the current page view ("none" before)
    now,              \* Date.now()
    ticks,            \* the number of clock steps taken
    loads,            \* the number of page loads so far
    storage,          \* localStorage
    cache,            \* PublicationsFetcher: this.cache
    lastFetched,      \* PublicationsFetcher: this.lastFetched
    publicationsData, \* InspirePublications: this.publicationsData
    authorData,       \* InspirePublications: this.authorData
    ui,               \* the page regions
    seqs,             \* the fetch sequences in flight
    nextId,           \* the number of the next fetch sequence
    hist              \* history of the current page view

vars == <<hInput, hOutput, hCalled, rt, fx, sc, variant, now, ticks, loads, storage, cache,
          lastFetched, publicationsData, authorData, ui, seqs, nextId, hist>>
unitVars == <<hInput, hOutput, hCalled, rt, fx, sc>>
cycleVars == <<variant, now, ticks, loads, storage, cache, lastFetched,
               publicationsData, authorData, ui, seqs, nextId, hist>>

(***************************************************************************)
(* Helpers shared by the scripts.                                          *)
(***************************************************************************)
getItem(key) == storage[key]
\* localStorage after setItem(key, text)
setItem(st, key, text) == [st EXCEPT ![key] = text]

showLoadingOnly(u) == [u EXCEPT !.loading = TRUE]
hideLoading(u) == [u EXCEPT !.loading = FALSE]
hideError(u) == [u EXCEPT !.error = FALSE]

\* the regions of a page just loaded, before its script runs; the markup
\* decides whether the loading indicator is visible
FreshPage(l) == [list |-> Blank, stats |-> Blank, loading |-> l, error |-> FALSE,
                 label |-> Blank]

\* a fetch sequence in flight: origin is "load" (started by the page load with
\* nothing from the cache rendered), "refresh" (started by the page load after
\* the cache was rendered) or "click" (started by the refresh button)
NewSeq(origin, pc) == [id |-> nextId, origin |-> origin, pc |-> pc, pubs |-> Undefined]
Foreground(s) == s.origin \in {"load", "click"}
Background(s) == s.origin = "refresh"

\* the list region shows data (a list, or the no-publications message)
ListRendered(u) == u.list.t # "blank"
StatsRendered(u) == u.stats.t # "blank"

\* history of a page view: the cache entry the script found, the network
\* calls issued, and whether the first of them came after a render
HistWith(entry, noCache, writers) ==
    [entry |-> entry,         \* the well-formed cache entry found, and its age
     noCache |-> noCache,     \* the script found nothing under its cache key
     netCalls |-> 0,          \* network calls issued
     firstCall |-> "none",    \* the first call came before or after a render
     rejected |-> FALSE,      \* an exception left init() or the load handler
     loadStarted |-> 0,       \* fetch sequences started by the page load
     clicks |-> 0,            \* fetch sequences started by the refresh button
     failures |-> 0,          \* fetch sequences ended by a failed call
     failedOrigin |-> "none", \* the origin of the last of them
     effects |-> <<>>,        \* what the last successful fetch sequence did, in order
     reads |-> 0,             \* times the script has read its cache entry
     writers |-> writers]     \* the script that wrote each localStorage item
NoWriters == [k \in Keys |-> "none"]
\* the history of a new page view, whose script has just read its cache
\* entry; who wrote the items is kept across views
NewHist(entry, noCache) == [HistWith(entry, noCache, hist.writers) EXCEPT !.reads = 1]
NoEntry == [has |-> FALSE, age |-> 0]
\* h after a network call is issued with the regions as in u
Called(h, u) ==
    [h EXCEPT !.netCalls = @ + 1,
              !.firstCall = IF @ # "none" THEN @
                            ELSE IF ListRendered(u) THEN "afterRender"
                            ELSE "beforeRender"]
Started(h) == [h EXCEPT !.loadStarted = @ + 1]
Clicked(h) == [h EXCEPT !.clicks = @ + 1]
\* h after a call of the sequence s failed (transport, status, or no JSON)
Failed(h, s) == [h EXCEPT !.failures = @ + 1, !.failedOrigin = s.origin]
\* h after a fetch sequence has ended with both calls answered: e is what the
\* handler did with the answers, in the order of its statements
Did(h, e) == [h EXCEPT !.effects = e]
\* h after the running script has turned localStorage into st
Wrote(h, st) ==
    [h EXCEPT !.writers = [k \in Keys |-> IF st[k] # storage[k] THEN variant ELSE @[k]]]

(***************************************************************************)
(* PublicationsFetcher (src/js_publications_Version2.js).                  *)
(***************************************************************************)
PF_showLoading(u) == [u EXCEPT !.loading = TRUE, !.error = FALSE]
PF_showError(u) == [u EXCEPT !.loading = FALSE, !.error = TRUE]

\* a loadFromCache that never finds an entry (a variant the properties must
\* reject)
PF_loadFromCache_never(item) == [ok |-> FALSE, cache |-> Undefined, lastFetched |-> Undefined]

\* loadFromCache: [ok, cache, lastFetched]
PF_loadFromCache(item) ==
    IF item.t = "text" /\ Readable(JsonParse(item))
    THEN [ok |-> TRUE, cache |-> Get(JsonParse(item), "data"),
          lastFetched |-> Get(JsonParse(item), "timestamp")]
    ELSE [ok |-> FALSE, cache |-> Undefined, lastFetched |-> Undefined]

\* a saveToCache that stores no timestamp (a variant the properties must
\* reject)
PF_saveToCache_noStamp(st, c, written) ==
    IF written THEN setItem(st, PubKey, JsonStringify(Obj([data |-> c]))) ELSE st

\* saveToCache: localStorage afterwards; written is FALSE when setItem throws
PF_saveToCache(st, c, written) ==
    IF written
    THEN setItem(st, PubKey, JsonStringify(Obj([data |-> c, timestamp |-> Num(now)])))
    ELSE st

PF_renderPublications(u, c) ==
    IF ~Truthy(c) THEN Done(u)
    ELSE LET publications == Get(c, "publications")
         IN  IF publications.t # "array" THEN Threw([u EXCEPT !.list = Blank])
             ELSE IF Length(publications) = 0
                  THEN Done([u EXCEPT !.list = NoPublicationsFound])
             ELSE Done([u EXCEPT !.list = ItemsShown(publications)])

PF_renderStatistics(u, c) ==
    IF ~Truthy(c) THEN Done(u)
    ELSE LET stats == Get(c, "citationSummary")
             publications == Get(c, "publications")
         IN  IF publications.t # "array" THEN Threw(u)
             ELSE Done([u EXCEPT !.stats =
                    StatsShown(Length(publications),
                               IF Truthy(stats) THEN Get(stats, "citation_count") ELSE Num(0),
                               IF Truthy(stats) THEN Get(stats, "h_index") ELSE Num(0))])

PF_updateLastFetchedTime(u, lf) ==
    IF lf.t = "number" /\ Truthy(lf) THEN [u EXCEPT !.label = TimeShown(lf.n, FALSE)] ELSE u

\* renderPublications(); renderStatistics(); updateLastFetchedTime()
PF_renderAll(u, c, lf) ==
    AndThen(PF_renderPublications(u, c),
            LAMBDA u1 : AndThen(PF_renderStatistics(u1, c),
                                LAMBDA u2 : Done(PF_updateLastFetchedTime(u2, lf))))

\* the expiry test with >= in place of > (a variant the properties must reject)
PF_expired_inclusive(lf) ==
    \/ lf.t = "number" /\ now - lf.n >= cacheExpiry
    \/ lf.t = "null" /\ now >= cacheExpiry

\* Date.now() - this.lastFetched > this.cacheExpiry
PF_expired(lf) ==
    \/ lf.t = "number" /\ now - lf.n > cacheExpiry
    \/ lf.t = "null" /\ now > cacheExpiry

\* the cache entry PublicationsFetcher and PublicationsDisplay look for
CombinedEntry(item) ==
    IF /\ item.t = "text"
       /\ Get(Get(JsonParse(item), "data"), "publications").t = "array"
       /\ Get(JsonParse(item), "timestamp").t = "number"
    THEN [has |-> TRUE, age |-> now - Get(JsonParse(item), "timestamp").n]
    ELSE NoEntry

\* init(), up to its first await or its end
PF_init(l) ==
    LET u0 == PF_showLoading(FreshPage(l))
        ld == PF_loadFromCache(getItem(PubKey))
        r  == PF_renderAll(u0, ld.cache, ld.lastFetched)
        h0 == NewHist(CombinedEntry(getItem(PubKey)), getItem(PubKey) = NoItem)
    IN  /\ cache' = ld.cache
        /\ lastFetched' = ld.lastFetched
        /\ UNCHANGED <<publicationsData, authorData, storage>>
        /\ IF ld.ok
           THEN IF r.threw
                THEN /\ ui' = PF_showError(r.ui)
                     /\ seqs' = {}
                     /\ hist' = h0
                     /\ UNCHANGED nextId
                ELSE IF PF_expired(ld.lastFetched)
                THEN /\ ui' = hideLoading(r.ui)
                     /\ seqs' = {NewSeq("refresh", "await1")}
                     /\ nextId' = nextId + 1
                     /\ hist' = Started(Called(h0, hideLoading(r.ui)))
                ELSE /\ ui' = hideLoading(r.ui)
                     /\ seqs' = {}
                     /\ hist' = h0
                     /\ UNCHANGED nextId
           ELSE /\ ui' = u0
                /\ seqs' = {NewSeq("load", "await1")}
                /\ nextId' = nextId + 1
                /\ hist' = Started(Called(h0, u0))

\* the combined record of fetchData and of fetchDataInBackground,
\* from a literature body and an author body
CombinedRecord(pubs, citationsData) ==
    Obj([publications |-> Get(Get(pubs, "hits"), "hits"),
         citationSummary |-> Get(Get(citationsData, "metadata"), "citation_summary"),
         metadata |-> Get(citationsData, "metadata")])

\* a fetchData that drops the record it holds when the literature call fails
\* (a variant the properties must reject)
PF_Response1_forget(s, o) ==
    /\ variant = "PublicationsFetcher"
    /\ s \in seqs /\ s.pc = "await1"
    /\ IF Parsed(o)
       THEN /\ seqs' = (seqs \ {s}) \cup
                       {[s EXCEPT !.pc = "await2", !.pubs = LiteratureBody(s.id, o)]}
            /\ hist' = Called(hist, ui)
            /\ UNCHANGED <<ui, cache, lastFetched>>
       ELSE /\ seqs' = seqs \ {s}
            /\ ui' = PF_showError(ui)
            /\ hist' = Failed(hist, s)
            /\ cache' = Null /\ lastFetched' = Null
    /\ UNCHANGED <<variant, now, ticks, loads, storage, publicationsData, authorData, nextId>>
    /\ UNCHANGED unitVars

\* fetchData: the literature call ends with outcome o
PF_Response1(s, o) ==
    /\ variant = "PublicationsFetcher"
    /\ s \in seqs /\ s.pc = "await1"
    /\ IF Parsed(o)
       THEN /\ seqs' = (seqs \ {s}) \cup
                       {[s EXCEPT !.pc = "await2", !.pubs = LiteratureBody(s.id, o)]}
            /\ hist' = Called(hist, ui)
            /\ UNCHANGED ui
       ELSE /\ seqs' = seqs \ {s}
            /\ ui' = PF_showError(ui)
            /\ hist' = Failed(hist, s)
    /\ UNCHANGED <<variant, now, ticks, loads, storage, cache, lastFetched,
                   publicationsData, authorData, nextId>>
    /\ UNCHANGED unitVars

\* what fetchData and init do once both calls are answered: the record is
\* combined and saved by fetchData, then rendered by init
PF_effects == <<"combine", "persist", "render">>

\* fetchData: the author call ends with outcome o; then the rest of init()
PF_Response2(s, o, written) ==
    /\ variant = "PublicationsFetcher"
    /\ s \in seqs /\ s.pc = "await2"
    /\ seqs' = seqs \ {s}
    /\ LET citationsData == AuthorBody(s.id, o)
           combinable == /\ Parsed(o)
                         /\ Readable(Get(s.pubs, "hits"))
                         /\ Readable(Get(citationsData, "metadata"))
           c == CombinedRecord(s.pubs, citationsData)
       IN  IF combinable
           THEN LET r == PF_renderAll(ui, c, Num(now))
                IN  /\ cache' = c
                    /\ lastFetched' = Num(now)
                    /\ storage' = PF_saveToCache(storage, c, written)
                    /\ ui' = IF r.threw THEN PF_showError(r.ui)
                             ELSE IF s.origin = "load" THEN hideLoading(r.ui)
                             ELSE r.ui
                    /\ hist' = Wrote(Did(hist, PF_effects), PF_saveToCache(storage, c, written))
           ELSE /\ ui' = PF_showError(ui)
                /\ written
                /\ hist' = IF Parsed(o) THEN hist ELSE Failed(hist, s)
                /\ UNCHANGED <<cache, lastFetched, storage>>
    /\ UNCHANGED <<variant, now, ticks, loads, publicationsData, authorData, nextId>>
    /\ UNCHANGED unitVars

(***************************************************************************)
(* InspirePublications (src/unnamed/part_002).                             *)
(***************************************************************************)
IP_showError(u) == [u EXCEPT !.error = TRUE]

\* loadCachedData: [ok, publicationsData, authorData]
IP_loadCachedData(cachedPublications, cachedAuthor) ==
    IF cachedPublications.t = "text" /\ cachedAuthor.t = "text"
    THEN [ok |-> TRUE, publicationsData |-> JsonParse(cachedPublications),
          authorData |-> JsonParse(cachedAuthor)]
    ELSE [ok |-> FALSE, publicationsData |-> Null, authorData |-> Null]

\* saveCachedData: localStorage afterwards, when the first n calls of setItem
\* succeed and the next one throws (n = 3: none throws)
IP_saveCachedData(st, pd, ad, n) ==
    LET st1 == IF Truthy(pd) /\ n >= 1 THEN setItem(st, PubKey, JsonStringify(pd)) ELSE st
        st2 == IF Truthy(ad) /\ n >= 2 THEN setItem(st1, AuthorKey, JsonStringify(ad)) ELSE st1
    IN  IF n >= 3 THEN setItem(st2, UpdatedKey, JsonStringify(Num(now))) ELSE st2

\* loadFallbackData
IP_fallbackPublications == Obj([hits |-> Obj([hits |-> FallbackPapers])])
IP_fallbackAuthor == Obj([metadata |-> Obj([citation_summary |-> FallbackSummary])])

IP_renderPublications(u, pd) ==
    IF ~Truthy(pd) THEN Done(u)
    ELSE IF ~Readable(Get(pd, "hits")) THEN Threw(u)
    ELSE LET publications == Get(Get(pd, "hits"), "hits")
         IN  IF publications.t # "array" THEN Threw([u EXCEPT !.list = Blank])
             ELSE IF Length(publications) = 0
                  THEN Done([u EXCEPT !.list = NoPublicationsFound])
             ELSE Done([u EXCEPT !.list = ItemsShown(publications)])

\* x || 0
OrZero(x) == IF Truthy(x) THEN x ELSE Num(0)

IP_renderStatistics(u, pd, ad) ==
    IF ~Truthy(ad) \/ ~Truthy(pd) THEN Done(u)
    ELSE IF ~Readable(Get(ad, "metadata")) THEN Threw(u)
    ELSE IF ~Readable(Get(pd, "hits")) THEN Threw(u)
    ELSE LET summary == Get(Get(ad, "metadata"), "citation_summary")
             citationSummary == IF Truthy(summary) THEN summary ELSE EmptyObj
             publications == Get(Get(pd, "hits"), "hits")
         IN  IF publications.t # "array" THEN Threw(u)
             ELSE Done([u EXCEPT !.stats =
                    StatsShown(Length(publications),
                               OrZero(Get(citationSummary, "citation_count")),
                               OrZero(Get(citationSummary, "h_index")))])

IP_updateLastUpdatedTime(u) == [u EXCEPT !.label = TimeShown(now, FALSE)]

IP_renderUI(u, pd, ad) ==
    AndThen(IP_renderPublications(u, pd),
            LAMBDA u1 : AndThen(IP_renderStatistics(u1, pd, ad),
                                LAMBDA u2 : Done(IP_updateLastUpdatedTime(u2))))

\* a catch block that loads the fallback data whatever the instance holds (a
\* variant the properties must reject)
IP_catch_always(u, pd, ad, isManualRefresh) ==
    LET u1 == IF isManualRefresh THEN hideLoading(IP_showError(u)) ELSE u
    IN  [ui |-> hideLoading(IP_renderUI(u1, IP_fallbackPublications,
                                        IP_fallbackAuthor).ui),
         publicationsData |-> IP_fallbackPublications,
         authorData |-> IP_fallbackAuthor]

\* the catch block of fetchAndDisplayData: [ui, publicationsData, authorData]
IP_catch(u, pd, ad, isManualRefresh) ==
    LET u1 == IF isManualRefresh THEN hideLoading(IP_showError(u)) ELSE u
    IN  IF ~Truthy(pd) /\ ~Truthy(ad)
        THEN [ui |-> hideLoading(IP_renderUI(u1, IP_fallbackPublications,
                                             IP_fallbackAuthor).ui),
              publicationsData |-> IP_fallbackPublications,
              authorData |-> IP_fallbackAuthor]
        ELSE [ui |-> u1, publicationsData |-> pd, authorData |-> ad]

\* the cache entry InspirePublications looks for, with the age its
\* last-updated item gives
IP_Entry ==
    IF /\ getItem(PubKey).t = "text" /\ getItem(AuthorKey).t = "text"
       /\ getItem(UpdatedKey).t = "text"
       /\ Get(Get(JsonParse(getItem(PubKey)), "hits"), "hits").t = "array"
       /\ Readable(Get(JsonParse(getItem(AuthorKey)), "metadata"))
    THEN [has |-> TRUE, age |-> now - JsonParse(getItem(UpdatedKey)).n]
    ELSE NoEntry

\* init(), up to its first await: when renderUI throws, init's promise rejects
\* before fetchAndDisplayData is called
IP_init(l) ==
    LET ld == IP_loadCachedData(getItem(PubKey), getItem(AuthorKey))
        r  == IF ld.ok THEN IP_renderUI(FreshPage(l), ld.publicationsData, ld.authorData)
              ELSE Done(showLoadingOnly(FreshPage(l)))
        h0 == NewHist(IP_Entry, ~ld.ok)
    IN  /\ publicationsData' = ld.publicationsData
        /\ authorData' = ld.authorData
        /\ ui' = r.ui
        /\ UNCHANGED <<cache, lastFetched, storage>>
        /\ IF r.threw
           THEN /\ seqs' = {}
                /\ hist' = [h0 EXCEPT !.rejected = TRUE]
                /\ UNCHANGED nextId
           ELSE /\ seqs' = {NewSeq(IF ld.ok THEN "refresh" ELSE "load", "await1")}
                /\ nextId' = nextId + 1
                /\ hist' = Started(Called(h0, r.ui))

\* the refresh button: fetchAndDisplayData(true), up to its first await
IP_Click ==
    /\ variant = "InspirePublications"
    /\ nextId <= MaxSeqs
    /\ ui' = hideError(showLoadingOnly(ui))
    /\ seqs' = seqs \cup {NewSeq("click", "await1")}
    /\ nextId' = nextId + 1
    /\ hist' = Clicked(Called(hist, ui))
    /\ UNCHANGED <<variant, now, ticks, loads, storage, cache, lastFetched,
                   publicationsData, authorData>>
    /\ UNCHANGED unitVars

\* a fetchAndDisplayData that issues the author call again when it fails (a
\* variant the properties must reject)
IP_Response1_retry(s, o) ==
    /\ variant = "InspirePublications"
    /\ s \in seqs /\ s.pc = "await1"
    /\ IF Parsed(o)
       THEN /\ authorData' = AuthorBody(s.id, o)
            /\ seqs' = (seqs \ {s}) \cup {[s EXCEPT !.pc = "await2"]}
            /\ hist' = Called(hist, ui)
            /\ UNCHANGED <<ui, publicationsData>>
       ELSE /\ hist.netCalls < 2 * MaxSeqs
            /\ hist' = Called(hist, ui)
            /\ UNCHANGED <<seqs, ui, publicationsData, authorData>>
    /\ UNCHANGED <<variant, now, ticks, loads, storage, cache, lastFetched, nextId>>
    /\ UNCHANGED unitVars

\* fetchAndDisplayData: the author call ends with outcome o
IP_Response1(s, o) ==
    /\ variant = "InspirePublications"
    /\ s \in seqs /\ s.pc = "await1"
    /\ IF Parsed(o)
       THEN /\ authorData' = AuthorBody(s.id, o)
            /\ seqs' = (seqs \ {s}) \cup {[s EXCEPT !.pc = "await2"]}
            /\ hist' = Called(hist, ui)
            /\ UNCHANGED <<ui, publicationsData>>
       ELSE LET c == IP_catch(ui, publicationsData, authorData, s.origin = "click")
            IN  /\ seqs' = seqs \ {s}
                /\ ui' = c.ui
                /\ publicationsData' = c.publicationsData
                /\ authorData' = c.authorData
                /\ hist' = Failed(hist, s)
    /\ UNCHANGED <<variant, now, ticks, loads, storage, cache, lastFetched, nextId>>
    /\ UNCHANGED unitVars

\* what fetchAndDisplayData does once both calls are answered: the two bodies
\* are kept apart, saved (saveCachedData), then rendered (renderUI)
IP_effects == <<"persist", "render">>

\* fetchAndDisplayData: the literature call ends with outcome o; n as in
\* IP_saveCachedData
IP_Response2(s, o, n) ==
    /\ variant = "InspirePublications"
    /\ s \in seqs /\ s.pc = "await2"
    /\ seqs' = seqs \ {s}
    /\ IF Parsed(o)
       THEN LET pd == LiteratureBody(s.id, o)
                r  == IP_renderUI(ui, pd, authorData)
                c  == IP_catch(r.ui, pd, authorData, s.origin = "click")
            IN  /\ storage' = IP_saveCachedData(storage, pd, authorData, n)
                /\ publicationsData' = IF r.threw THEN c.publicationsData ELSE pd
                /\ authorData' = IF r.threw THEN c.authorData ELSE authorData
                /\ ui' = IF r.threw THEN c.ui ELSE hideLoading(r.ui)
                /\ hist' = Wrote(Did(hist, IP_effects),
                                IP_saveCachedData(storage, pd, authorData, n))
       ELSE LET c == IP_catch(ui, publicationsData, authorData, s.origin = "click")
            IN  /\ n = 3
                /\ ui' = c.ui
                /\ publicationsData' = c.publicationsData
                /\ authorData' = c.authorData
                /\ hist' = Failed(hist, s)
                /\ UNCHANGED storage
    /\ UNCHANGED <<variant, now, ticks, loads, cache, lastFetched, nextId>>
    /\ UNCHANGED unitVars

(***************************************************************************)
(* The functional publications script (src/unnamed/part_003).              *)
(***************************************************************************)
\* a savePublicationsToCache that keeps an entry already stored (a variant the
\* properties must reject)
savePublicationsToCache_once(st, data, written) ==
    IF written /\ st[PUBLICATIONS_CACHE_KEY].t # "text"
    THEN setItem(st, PUBLICATIONS_CACHE_KEY,
                 JsonStringify(Obj([data |-> data, timestamp |-> Num(now)])))
    ELSE st

\* savePublicationsToCache: localStorage afterwards; written is FALSE when
\* setItem throws
savePublicationsToCache(st, data, written) ==
    IF written
    THEN setItem(st, PUBLICATIONS_CACHE_KEY,
                 JsonStringify(Obj([data |-> data, timestamp |-> Num(now)])))
    ELSE st

\* getPublicationsFromCache of publications-cache.js (src/unnamed/part_001),
\* which returns the data of the entry and not the entry
getPublicationsFromCache_dataOnly(item) ==
    IF item.t # "text" THEN Null
    ELSE IF ~Readable(JsonParse(item)) THEN Null
    ELSE Get(JsonParse(item), "data")

\* getPublicationsFromCache of the script itself
getPublicationsFromCache(item) ==
    IF item.t # "text" THEN Null ELSE JsonParse(item)

RECURSIVE SumSeq(_)
SumSeq(s) == IF s = <<>> THEN 0 ELSE Head(s) + SumSeq(Tail(s))

\* the title of the publication the script leaves out, and the same title
\* with white space around it
ExcludedTitle == "Studying inflation with quasars from the DESI spectroscopic survey"
PaddedTitle == " Studying inflation with quasars from the DESI spectroscopic survey "
\* title.trim(), for the titles of the model
Trim(title) == IF title = PaddedTitle THEN ExcludedTitle ELSE title

\* the title the filter of renderPublications reads from paper ('' when the
\* paper has none)
TitleOf(paper) ==
    LET metadata == Get(paper, "metadata")
    IN  IF Truthy(metadata) /\ Truthy(Get(metadata, "titles"))
           /\ Truthy(First(Get(metadata, "titles")))
        THEN Get(First(Get(metadata, "titles")), "title")
        ELSE Str("")

\* a filter that keeps every paper (a variant the properties must reject)
FilterPapers_all(items) == items

\* data.hits.hits.filter(...): the papers whose trimmed title is not the
\* excluded one, in order
RECURSIVE FilterPapers(_)
FilterPapers(items) ==
    IF items = <<>> THEN <<>>
    ELSE IF Trim(TitleOf(Head(items)).s) # ExcludedTitle
         THEN <<Head(items)>> \o FilterPapers(Tail(items))
         ELSE FilterPapers(Tail(items))

FN_renderPublications(u, data) ==
    IF \/ ~Truthy(data)
       \/ ~Truthy(Get(data, "hits"))
       \/ ~Truthy(Get(Get(data, "hits"), "hits"))
    THEN Done([u EXCEPT !.list = NoPublicationsFound])
    ELSE LET hits == Get(Get(data, "hits"), "hits")
             filteredPapers == Arr(FilterPapers(hits.items))
         IN  IF hits.t # "array" THEN Threw(u)
             ELSE IF \E i \in DOMAIN filteredPapers.items :
                        ~Readable(Get(filteredPapers.items[i], "metadata"))
                  THEN Threw(u)
             ELSE Done([u EXCEPT
                    !.list = ItemsShown(filteredPapers),
                    !.stats = StatsShown(Length(filteredPapers),
                                         Num(SumSeq(CitationCountsOf(filteredPapers))),
                                         Num(calculateHIndex(filteredPapers)))])

updateInspireInfoBar(u, cacheObj) ==
    IF Truthy(cacheObj) /\ Truthy(Get(cacheObj, "timestamp"))
    THEN [u EXCEPT !.label = TimeShown(Get(cacheObj, "timestamp").n, FALSE)]
    ELSE [u EXCEPT !.label = LoadingText]

\* the cache entry the functional script looks for
FN_Entry ==
    LET item == getItem(PUBLICATIONS_CACHE_KEY)
    IN  IF /\ item.t = "text"
           /\ Truthy(Get(JsonParse(item), "data"))
           /\ Get(JsonParse(item), "timestamp").t = "number"
        THEN [has |-> TRUE, age |-> now - Get(JsonParse(item), "timestamp").n]
        ELSE NoEntry

\* the DOMContentLoaded handler, up to its await (the script has no loading
\* indicator and no error indicator)
FN_init ==
    LET cachedObj == getPublicationsFromCache(getItem(PUBLICATIONS_CACHE_KEY))
        shown == Truthy(cachedObj) /\ Truthy(Get(cachedObj, "data"))
        r == IF shown
             THEN AndThen(FN_renderPublications(FreshPage(FALSE), Get(cachedObj, "data")),
                          LAMBDA u1 : Done(updateInspireInfoBar(u1, cachedObj)))
             ELSE Done(updateInspireInfoBar(FreshPage(FALSE), Null))
        h0 == NewHist(FN_Entry, getItem(PUBLICATIONS_CACHE_KEY) = NoItem)
    IN  /\ ui' = r.ui
        /\ cache' = Null /\ lastFetched' = Null
        /\ publicationsData' = Null /\ authorData' = Null
        /\ UNCHANGED storage
        /\ IF r.threw
           THEN /\ seqs' = {}
                /\ hist' = [h0 EXCEPT !.rejected = TRUE]
                /\ UNCHANGED nextId
           ELSE /\ seqs' = {NewSeq(IF shown THEN "refresh" ELSE "load", "await1")}
                /\ nextId' = nextId + 1
                /\ hist' = Started(Called(h0, r.ui))

\* what fetchPublicationsData and the handler do once the call is answered
FN_effects == <<"persist", "render">>

\* fetchPublicationsData: the call ends with outcome o; then the rest of the
\* handler
FN_Response(s, o, written) ==
    /\ variant = "Functional"
    /\ s \in seqs /\ s.pc = "await1"
    /\ seqs' = seqs \ {s}
    /\ IF Parsed(o)
       THEN LET data == LiteratureBody(s.id, o)
                st == savePublicationsToCache(storage, data, written)
                r == FN_renderPublications(ui, data)
            IN  /\ storage' = st
                /\ ui' = IF r.threw THEN r.ui
                         ELSE updateInspireInfoBar(r.ui,
                                  getPublicationsFromCache(st[PUBLICATIONS_CACHE_KEY]))
                /\ hist' = Wrote(Did([hist EXCEPT !.rejected = @ \/ r.threw,
                                                 !.reads = IF r.threw THEN @ ELSE @ + 1],
                                    FN_effects), st)
       ELSE /\ written
            /\ hist' = Failed(hist, s)
            /\ UNCHANGED <<storage, ui>>
    /\ UNCHANGED <<variant, now, ticks, loads, cache, lastFetched, publicationsData,
                   authorData, nextId>>
    /\ UNCHANGED unitVars

(***************************************************************************)
(* PublicationsDisplay (src/js/publications.js).                           *)
(***************************************************************************)
PD_renderPublications(u, publications) ==
    IF ~Truthy(publications) THEN Done(u)
    ELSE IF publications.t # "array" THEN Threw([u EXCEPT !.list = Blank])
    ELSE IF Length(publications) = 0 THEN Done([u EXCEPT !.list = NoPublicationsFound])
    ELSE Done([u EXCEPT !.list = ItemsShown(publications)])

PD_renderStatistics(u, data) ==
    IF ~Truthy(data) THEN Done(u)
    ELSE LET stats == Get(data, "citationSummary")
             publications == Get(data, "publications")
         IN  IF publications.t # "array" THEN Threw(u)
             ELSE Done([u EXCEPT !.stats =
                    StatsShown(Length(publications),
                               IF Truthy(stats) THEN Get(stats, "citation_count") ELSE Num(0),
                               IF Truthy(stats) THEN Get(stats, "h_index") ELSE Num(0))])

PD_updateTimestamp(u, isFallback) == [u EXCEPT !.label = TimeShown(now, isFallback)]

\* renderPublications(data.publications); renderStatistics(data); updateTimestamp(false)
PD_renderAll(u, data) ==
    IF ~Readable(data) THEN Threw(u)
    ELSE AndThen(PD_renderPublications(u, Get(data, "publications")),
                 LAMBDA u1 : AndThen(PD_renderStatistics(u1, data),
                                     LAMBDA u2 : Done(PD_updateTimestamp(u2, FALSE))))

PD_fallbackData == Obj([publications |-> FallbackPapers,
                        citationSummary |-> FallbackSummary,
                        metadata |-> EmptyObj])

\* displayFallbackData: the cached entry when it renders, else the hardcoded data
PD_displayFallbackData(u, cachedData) ==
    LET r == IF cachedData.t = "text" /\ Readable(JsonParse(cachedData))
             THEN PD_renderAll(u, Get(JsonParse(cachedData), "data"))
             ELSE Threw(u)
        f1 == PD_renderPublications(r.ui, Get(PD_fallbackData, "publications")).ui
        f2 == PD_renderStatistics(f1, PD_fallbackData).ui
    IN  IF cachedData.t = "text" /\ ~r.threw THEN r.ui
        ELSE PD_updateTimestamp(f2, TRUE)

\* init(): the fetch is left to a timer
PD_init(l) ==
    LET u1 == PD_displayFallbackData(hideLoading(FreshPage(l)), getItem(PubKey))
        h0 == NewHist(CombinedEntry(getItem(PubKey)), getItem(PubKey) = NoItem)
    IN  /\ ui' = u1
        /\ cache' = Null /\ lastFetched' = Null
        /\ publicationsData' = Null /\ authorData' = Null
        /\ UNCHANGED storage
        /\ seqs' = {NewSeq("refresh", "timer")}
        /\ nextId' = nextId + 1
        /\ hist' = Started(h0)

\* the refresh button: refreshData()
PD_Click ==
    /\ variant = "PublicationsDisplay"
    /\ nextId <= MaxSeqs
    /\ ui' = hideError(showLoadingOnly(ui))
    /\ seqs' = seqs \cup {NewSeq("click", "timer")}
    /\ nextId' = nextId + 1
    /\ hist' = Clicked(hist)
    /\ UNCHANGED <<variant, now, ticks, loads, storage, cache, lastFetched,
                   publicationsData, authorData>>
    /\ UNCHANGED unitVars

\* the timer of fetchDataInBackground fires: the literature call is issued
PD_Timer(s) ==
    /\ variant = "PublicationsDisplay"
    /\ s \in seqs /\ s.pc = "timer"
    /\ seqs' = (seqs \ {s}) \cup {[s EXCEPT !.pc = "await1"]}
    /\ hist' = Called(hist, ui)
    /\ UNCHANGED <<variant, now, ticks, loads, storage, cache, lastFetched,
                   publicationsData, authorData, ui, nextId>>
    /\ UNCHANGED unitVars

\* a catch that shows the error whoever started the fetch (a variant the
\* properties must reject)
PD_catch_always(u, forceRefresh) == hideLoading(IP_showError(u))

\* the catch of fetchDataInBackground
PD_catch(u, forceRefresh) == IF forceRefresh THEN hideLoading(IP_showError(u)) ELSE u

\* the literature call ends with outcome o
PD_Response1(s, o) ==
    /\ variant = "PublicationsDisplay"
    /\ s \in seqs /\ s.pc = "await1"
    /\ IF Parsed(o)
       THEN /\ seqs' = (seqs \ {s}) \cup
                       {[s EXCEPT !.pc = "await2", !.pubs = LiteratureBody(s.id, o)]}
            /\ hist' = Called(hist, ui)
            /\ UNCHANGED ui
       ELSE /\ seqs' = seqs \ {s}
            /\ ui' = PD_catch(ui, s.origin = "click")
            /\ hist' = Failed(hist, s)
    /\ UNCHANGED <<variant, now, ticks, loads, storage, cache, lastFetched,
                   publicationsData, authorData, nextId>>
    /\ UNCHANGED unitVars

\* a cache write that stores the record without the {data, timestamp} object
\* (a variant the properties must reject)
PD_store_bare(st, data, written) ==
    IF written THEN setItem(st, PubKey, JsonStringify(data)) ELSE st

\* the cache write of fetchDataInBackground
PD_store(st, data, written) ==
    IF written
    THEN setItem(st, PubKey, JsonStringify(Obj([data |-> data, timestamp |-> Num(now)])))
    ELSE st

\* what fetchDataInBackground does once both calls are answered: a manual
\* refresh renders the combined record and then stores it, the page-load
\* fetch only stores it
PD_effects_persistFirst(forceRefresh) ==
    IF forceRefresh THEN <<"combine", "persist", "render">> ELSE <<"combine", "persist">>

PD_effects(forceRefresh) ==
    IF forceRefresh THEN <<"combine", "render", "persist">> ELSE <<"combine", "persist">>

\* the author call ends with outcome o
PD_Response2(s, o, written) ==
    /\ variant = "PublicationsDisplay"
    /\ s \in seqs /\ s.pc = "await2"
    /\ seqs' = seqs \ {s}
    /\ LET citationsData == AuthorBody(s.id, o)
           combinable == /\ Parsed(o)
                         /\ Readable(Get(s.pubs, "hits"))
                         /\ Readable(Get(citationsData, "metadata"))
           data == CombinedRecord(s.pubs, citationsData)
           r == IF s.origin = "click" THEN PD_renderAll(ui, data) ELSE Done(ui)
       IN  IF combinable /\ ~r.threw
           THEN /\ ui' = IF s.origin = "click" THEN hideLoading(r.ui) ELSE ui
                /\ storage' = PD_store(storage, data, written)
                /\ hist' = Wrote(Did(hist, PD_effects(s.origin = "click")),
                                PD_store(storage, data, written))
           ELSE /\ written
                /\ ui' = PD_catch(IF combinable THEN r.ui ELSE ui, s.origin = "click")
                /\ hist' = IF Parsed(o) THEN hist ELSE Failed(hist, s)
                /\ UNCHANGED storage
    /\ UNCHANGED <<variant, now, ticks, loads, cache, lastFetched, publicationsData,
                   authorData, nextId>>
    /\ UNCHANGED unitVars

(***************************************************************************)
(* The page, the clock and the specification of the cycle.                 *)
(***************************************************************************)
\* the page is (re)loaded with the script v: the fetch sequences of the page
\* left die with it, localStorage stays
PageLoad(v, l) ==
    /\ loads < MaxLoads
    /\ nextId <= MaxSeqs
    /\ variant' = v
    /\ loads' = loads + 1
    /\ CASE v = "PublicationsFetcher" -> PF_init(l)
         [] v = "InspirePublications" -> IP_init(l)
         [] v = "Functional" -> FN_init
         [] v = "PublicationsDisplay" -> PD_init(l)
    /\ UNCHANGED <<now, ticks>>
    /\ UNCHANGED unitVars

\* time passes
Tick(d) ==
    /\ ticks < MaxTicks
    /\ ticks' = ticks + 1
    /\ now' = now + d
    /\ UNCHANGED <<variant, loads, storage, cache, lastFetched, publicationsData,
                   authorData, ui, seqs, nextId, hist>>
    /\ UNCHANGED unitVars

HIdle == hInput = Undefined /\ hOutput = 0 /\ hCalled = FALSE

\* no cache round trip under way
NoRoundTrip ==
    [phase |-> "idle", lib |-> "none", d |-> Undefined, start |-> 0,
     written |-> FALSE, before |-> NoItem, saves |-> 0,
     result |-> [data |-> Undefined, timestamp |-> Undefined], readAt |-> 0]

\* no page with selected publications loaded
NoPage == [phase |-> "none"]

\* no formatting function called
NoCall == [op |-> "none", arg |-> Undefined, out |-> <<>>, done |-> FALSE]

CycleIdle ==
    /\ variant = "none"
    /\ now = 2 * cacheExpiry
    /\ ticks = 0
    /\ loads = 0
    /\ storage = [k \in Keys |-> NoItem]
    /\ cache = Null /\ lastFetched = Null
    /\ publicationsData = Null /\ authorData = Null
    /\ ui = FreshPage(TRUE)
    /\ seqs = {}
    /\ nextId = 1
    /\ hist = HistWith(NoEntry, TRUE, NoWriters)

Init == HIdle /\ rt = NoRoundTrip /\ fx = NoCall /\ sc = NoPage /\ CycleIdle

Next ==
    \/ \E v \in Variants, l \in BOOLEAN : PageLoad(v, l)
    \/ \E d \in {1, cacheExpiry} : Tick(d)
    \/ \E s \in seqs, o \in Outcomes : PF_Response1(s, o)
    \/ \E s \in seqs, o \in Outcomes, w \in BOOLEAN : PF_Response2(s, o, w)
    \/ IP_Click
    \/ \E s \in seqs, o \in Outcomes : IP_Response1(s, o)
    \/ \E s \in seqs, o \in Outcomes, n \in 0..3 : IP_Response2(s, o, n)
    \/ \E s \in seqs, o \in Outcomes, w \in BOOLEAN : FN_Response(s, o, w)
    \/ PD_Click
    \/ \E s \in seqs : PD_Timer(s)
    \/ \E s \in seqs, o \in Outcomes : PD_Response1(s, o)
    \/ \E s \in seqs, o \in Outcomes, w \in BOOLEAN : PD_Response2(s, o, w)

Spec == Init /\ [][Next]_vars

(***************************************************************************)
(* The specification of calculateHIndex: any list of up to MaxPapers       *)
(* papers, or no list.                                                     *)
(***************************************************************************)
CitValues == {Num(n) : n \in (0..MaxCit) \cup {5, 13}} \cup {Undefined}
PaperLists == UNION {[1..n -> {MkPaper(c) : c \in CitValues}] : n \in 0..MaxPapers}
HInputs == {Undefined, Null} \cup {Arr(s) : s \in PaperLists}

InitH ==
    /\ hInput \in HInputs /\ hOutput = 0 /\ hCalled = FALSE
    /\ rt = NoRoundTrip /\ fx = NoCall /\ sc = NoPage
    /\ CycleIdle

CallHIndex ==
    /\ ~hCalled
    /\ hCalled' = TRUE
    /\ hOutput' = calculateHIndex(hInput)
    /\ UNCHANGED <<hInput, rt, fx, sc>>
    /\ UNCHANGED cycleVars

NextH == CallHIndex

SpecH == InitH /\ [][NextH]_vars

(***************************************************************************)
(* The specification of the cache round trip: a record is saved through    *)
(* one of the cache libraries, time passes, and the record is loaded       *)
(* through the same library.  The libraries are PublicationsFetcher        *)
(* (saveToCache / loadFromCache), publications-cache.js                    *)
(* (src/unnamed/part_001) and the cache helpers of the functional script.  *)
(***************************************************************************)
CacheLibs == {"PublicationsFetcher", "publications-cache", "Functional"}
KeyOf(lib) == IF lib = "PublicationsFetcher" THEN PubKey ELSE PUBLICATIONS_CACHE_KEY

\* the records saved: combined records and parsed bodies, as the scripts
\* build them from the responses of the API
RTRecords ==
    {CombinedRecord(LiteratureBody(k, "ok"), AuthorBody(k, o)) :
        k \in 1..2, o \in {"ok", "badshape"}}
    \cup {CombinedRecord(Obj([hits |-> EmptyObj]), Obj([metadata |-> EmptyObj]))}
    \cup {LiteratureBody(k, o) : k \in 1..2, o \in {"ok", "badshape"}}
    \cup {Null, Undefined, Num(0)}

\* a and b have the same type and the same value, property for property and
\* item for item (a property that is undefined reads as one that is absent)
RECURSIVE JsEq(_, _)
JsEq(a, b) ==
    IF a.t # b.t THEN FALSE
    ELSE CASE a.t = "number" -> a.n = b.n
           [] a.t = "string" -> a.s = b.s
           [] a.t = "array" ->
                /\ Len(a.items) = Len(b.items)
                /\ \A i \in DOMAIN a.items : JsEq(a.items[i], b.items[i])
           [] a.t = "object" ->
                \A k \in DOMAIN a.f \cup DOMAIN b.f : JsEq(Get(a, k), Get(b, k))
           [] OTHER -> TRUE

\* the record d is saved through lib; written is FALSE when setItem throws
RT_Save(lib, d, written) ==
    /\ rt.phase \in {"idle", "loaded"}
    /\ rt.saves < MaxSaves
    /\ storage' = IF lib = "PublicationsFetcher" THEN PF_saveToCache(storage, d, written)
                  ELSE savePublicationsToCache(storage, d, written)
    /\ cache' = IF lib = "PublicationsFetcher" THEN d ELSE cache
    /\ lastFetched' = Null
    /\ rt' = [rt EXCEPT !.phase = "saved", !.lib = lib, !.d = d, !.start = now,
                        !.written = written, !.before = storage[KeyOf(lib)],
                        !.saves = @ + 1]
    /\ UNCHANGED <<hInput, hOutput, hCalled, fx, sc>>
    /\ UNCHANGED <<variant, now, ticks, loads, publicationsData, authorData, ui,
                   seqs, nextId, hist>>

\* the record is loaded through the library that saved it (PublicationsFetcher:
\* by a new instance, whose cache and lastFetched start as null)
RT_Load ==
    /\ rt.phase = "saved"
    /\ LET item == getItem(KeyOf(rt.lib))
           ld == PF_loadFromCache(item)
           cachedObj == getPublicationsFromCache(item)
           res == CASE rt.lib = "PublicationsFetcher" ->
                         [data |-> ld.cache, timestamp |-> ld.lastFetched]
                    [] rt.lib = "publications-cache" ->
                         [data |-> getPublicationsFromCache_dataOnly(item),
                          timestamp |-> Undefined]
                    [] rt.lib = "Functional" ->
                         [data |-> Get(cachedObj, "data"),
                          timestamp |-> Get(cachedObj, "timestamp")]
       IN  /\ rt' = [rt EXCEPT !.phase = "loaded", !.result = res, !.readAt = now]
           /\ cache' = IF rt.lib = "PublicationsFetcher" /\ ld.ok THEN ld.cache ELSE Null
           /\ lastFetched' = IF rt.lib = "PublicationsFetcher" /\ ld.ok
                             THEN ld.lastFetched ELSE Null
    /\ UNCHANGED <<hInput, hOutput, hCalled, fx, sc>>
    /\ UNCHANGED <<variant, now, ticks, loads, storage, publicationsData, authorData,
                   ui, seqs, nextId, hist>>

NextRT ==
    \/ \E lib \in CacheLibs, d \in RTRecords, w \in BOOLEAN : RT_Save(lib, d, w)
    \/ RT_Load
    \/ \E d \in {1, cacheExpiry} : Tick(d)

SpecRT == Init /\ [][NextRT]_vars

(***************************************************************************)
(* The formatting of a publication item.  A string built by the scripts is *)
(* the sequence of its pieces: the texts taken from the record and the     *)
(* literal texts and markup the script puts around them.                   *)
(***************************************************************************)
\* pieces.join(sep)
RECURSIVE Join(_, _)
Join(pieces, sep) ==
    IF Len(pieces) <= 1 THEN pieces
    ELSE <<Head(pieces), sep>> \o Join(Tail(pieces), sep)

\* the text of a string value; undefined and null give the empty text, as
\* Array.prototype.join does
TextOf(v) == IF v.t = "string" THEN v.s ELSE ""

\* a slice of six (a variant the properties must reject)
FirstFive_six(items) == SubSeq(items, 1, IF Len(items) < 6 THEN Len(items) ELSE 6)

\* authors.slice(0, 5)
FirstFive(items) == SubSeq(items, 1, IF Len(items) < 5 THEN Len(items) ELSE 5)

\* the names that include 'Chaussidon'
OwnerNames == {"Chaussidon, E."}

\* formatAuthors of the functional script: the pieces of the author string;
\* a name that includes 'Chaussidon' is wrapped in <strong>
formatAuthors(authors) ==
    IF ~Truthy(authors) \/ Length(authors) = 0 THEN <<>>
    ELSE LET authorList == FirstFive(authors.items)
             authorNames == [i \in DOMAIN authorList |->
                               LET name == IF Truthy(Get(authorList[i], "full_name"))
                                           THEN Get(authorList[i], "full_name").s ELSE ""
                               IN  IF name \in OwnerNames
                                   THEN [strong |-> TRUE, text |-> name]
                                   ELSE [strong |-> FALSE, text |-> name]]
             authorString == Join(authorNames, [sep |-> ", "])
         IN  IF Length(authors) > 5 THEN authorString \o <<[lit |-> " et al."]>>
             ELSE authorString

\* the author string of PublicationsFetcher.renderPublications
PF_authors(authors) ==
    IF ~Truthy(authors) \/ Length(authors) = 0 THEN <<[lit |-> "No authors listed"]>>
    ELSE LET authorNames == [i \in DOMAIN authors.items |->
                               [strong |-> FALSE,
                                text |-> TextOf(Get(authors.items[i], "full_name"))]]
         IN  IF Len(authorNames) > 5
             THEN Join(FirstFive(authorNames), [sep |-> ", "]) \o <<[lit |-> " et al."]>>
             ELSE Join(authorNames, [sep |-> ", "])

\* ${v} in a template literal
Interpolated(v) == IF v.t = "string" THEN v.s ELSE v.t

\* the links of an item of PublicationsFetcher.renderPublications, in order
PF_links(pub) ==
    LET metadata == Get(pub, "metadata")
        arxiv == IF Truthy(Get(metadata, "arxiv_eprints"))
                      /\ Truthy(First(Get(metadata, "arxiv_eprints")))
                 THEN <<[kind |-> "arxiv",
                         ref |-> Interpolated(Get(First(Get(metadata, "arxiv_eprints")),
                                                  "value"))]>>
                 ELSE <<>>
        doi == IF Truthy(Get(metadata, "dois")) /\ Truthy(First(Get(metadata, "dois")))
               THEN <<[kind |-> "doi",
                       ref |-> Interpolated(Get(First(Get(metadata, "dois")), "value"))]>>
               ELSE <<>>
    IN  arxiv \o doi \o <<[kind |-> "inspire", ref |-> Interpolated(Get(pub, "id"))]>>

\* a journalInfo that shows the journal name alone (a variant the properties
\* must reject)
PF_journalInfo_nameOnly(pub) ==
    LET pubInfo == First(Get(Get(pub, "metadata"), "publication_info"))
    IN  IF Truthy(Get(pubInfo, "journal_title"))
        THEN <<[text |-> Interpolated(Get(pubInfo, "journal_title"))]>>
        ELSE <<[lit |-> "Preprint"]>>

\* journalInfo of PublicationsFetcher.renderPublications
PF_journalInfo(pub) ==
    LET info == Get(Get(pub, "metadata"), "publication_info")
        pubInfo == First(info)
        field(k) == Get(pubInfo, k)
    IN  IF Truthy(info) /\ Truthy(pubInfo) /\ Truthy(field("journal_title"))
        THEN <<[text |-> Interpolated(field("journal_title"))]>>
             \o (IF Truthy(field("journal_volume"))
                 THEN <<[lit |-> " "], [text |-> Interpolated(field("journal_volume"))]>>
                 ELSE <<>>)
             \o (IF Truthy(field("page_start"))
                 THEN <<[lit |-> ", "], [text |-> Interpolated(field("page_start"))]>>
                 ELSE <<>>)
             \o (IF Truthy(field("year"))
                 THEN <<[lit |-> " ("], [text |-> Interpolated(field("year"))],
                        [lit |-> ")"]>>
                 ELSE <<>>)
        ELSE <<[lit |-> "Preprint"]>>

\* the item PublicationsFetcher.renderPublications builds for pub
PF_item(pub) == [links |-> PF_links(pub), journal |-> PF_journalInfo(pub)]

\* createPublicationItem of the functional script: the links of the item in
\* the order of the markup, and the venue shown
createPublicationItem(publication) ==
    LET pub == Get(publication, "metadata")
        info == Get(pub, "publication_info")
        journal == IF Truthy(info) /\ Truthy(First(info))
                   THEN Get(First(info), "journal_title") ELSE Str("")
        dois == Get(pub, "dois")
        doi == IF Truthy(dois) /\ dois.t = "array" /\ Length(dois) > 0
               THEN Get(First(dois), "value") ELSE Null
        eprints == Get(pub, "arxiv_eprints")
        arxiv == IF Truthy(eprints) /\ eprints.t = "array" /\ Length(eprints) > 0
                 THEN Get(First(eprints), "value") ELSE Null
    IN  [links |-> <<[kind |-> "inspire", ref |-> Interpolated(Get(publication, "id"))]>>
                   \o (IF Truthy(doi) /\ Truthy(journal)
                       THEN <<[kind |-> "doi", ref |-> Interpolated(doi)]>> ELSE <<>>)
                   \o (IF Truthy(arxiv)
                       THEN <<[kind |-> "arxiv", ref |-> Interpolated(arxiv)]>> ELSE <<>>),
         journal |-> IF Truthy(journal) THEN <<[text |-> Interpolated(journal)]>>
                     ELSE <<[lit |-> "Preprint"]>>]

(***************************************************************************)
(* The specification of the formatting functions: each is called once on   *)
(* an argument drawn from a bounded set.                                   *)
(***************************************************************************)
AuthorNames == {"Chaussidon, E.", "Moneti, A."}
AuthorEntries == {Obj([full_name |-> Str(n)]) : n \in AuthorNames} \cup {EmptyObj}
AuthorLists == {Undefined} \cup
               {Arr(s) : s \in UNION {[1..n -> AuthorEntries] : n \in 0..MaxAuthors}}

\* publication records: with or without a preprint identifier, a DOI, and a
\* publication_info entry with or without each of its fields
IdLists(v) == {Undefined, Arr(<<>>), Arr(<<Obj([value |-> Str(v)])>>)}
InfoFields == {"journal_title", "journal_volume", "page_start", "year"}
FieldText(k) ==
    CASE k = "journal_title" -> Str("Astron.Astrophys.")
      [] k = "journal_volume" -> Str("658")
      [] k = "page_start" -> Str("A126")
      [] k = "year" -> Str("2022")
InfoLists == {Undefined, Arr(<<>>)} \cup
             {Arr(<<Obj([k \in F |-> FieldText(k)])>>) : F \in SUBSET InfoFields}
PubRecords ==
    {Obj([id |-> Str("1908124"),
          metadata |-> Obj([arxiv_eprints |-> a, dois |-> d, publication_info |-> i])]) :
        a \in IdLists("2110.13923"), d \in IdLists("10.1051/0004"), i \in InfoLists}

\* bodies of the literature endpoint with up to MaxPapers papers, each with
\* or without a citation count, titled or not, some with the excluded title
TitledPapers ==
    {Obj([metadata |-> Obj([titles |-> ts, citation_count |-> c])]) :
        ts \in {Undefined, Arr(<<Obj([title |-> Str(ExcludedTitle)])>>),
                Arr(<<Obj([title |-> Str(PaddedTitle)])>>),
                Arr(<<Obj([title |-> Str("The DESI survey")])>>)},
        c \in {Undefined, Num(0), Num(2), Num(5)}}
RenderInputs ==
    {Obj([hits |-> Obj([hits |-> Arr(s)])]) :
        s \in UNION {[1..n -> TitledPapers] : n \in 0..MaxPapers}}

FxStart(op, arg) == [op |-> op, arg |-> arg, out |-> <<>>, done |-> FALSE]

InitF ==
    /\ fx \in {FxStart(op, a) : op \in {"formatAuthors", "PF_authors"}, a \in AuthorLists}
             \cup {FxStart(op, a) : op \in {"createPublicationItem", "PF_item"},
                                    a \in PubRecords}
             \cup {FxStart("renderPublications", a) : a \in RenderInputs}
    /\ HIdle /\ rt = NoRoundTrip /\ sc = NoPage /\ CycleIdle

Call_formatAuthors ==
    /\ fx.op = "formatAuthors" /\ ~fx.done
    /\ fx' = [fx EXCEPT !.out = formatAuthors(fx.arg), !.done = TRUE]
    /\ UNCHANGED <<hInput, hOutput, hCalled, rt, sc>>
    /\ UNCHANGED cycleVars

Call_PF_authors ==
    /\ fx.op = "PF_authors" /\ ~fx.done
    /\ fx' = [fx EXCEPT !.out = PF_authors(fx.arg), !.done = TRUE]
    /\ UNCHANGED <<hInput, hOutput, hCalled, rt, sc>>
    /\ UNCHANGED cycleVars

Call_createPublicationItem ==
    /\ fx.op = "createPublicationItem" /\ ~fx.done
    /\ fx' = [fx EXCEPT !.out = createPublicationItem(fx.arg), !.done = TRUE]
    /\ UNCHANGED <<hInput, hOutput, hCalled, rt, sc>>
    /\ UNCHANGED cycleVars

Call_PF_item ==
    /\ fx.op = "PF_item" /\ ~fx.done
    /\ fx' = [fx EXCEPT !.out = PF_item(fx.arg), !.done = TRUE]
    /\ UNCHANGED <<hInput, hOutput, hCalled, rt, sc>>
    /\ UNCHANGED cycleVars

\* renderPublications of the functional script, on a page just loaded
Call_renderPublications ==
    /\ fx.op = "renderPublications" /\ ~fx.done
    /\ fx' = [fx EXCEPT !.out = FN_renderPublications(FreshPage(FALSE), fx.arg).ui,
                        !.done = TRUE]
    /\ UNCHANGED <<hInput, hOutput, hCalled, rt, sc>>
    /\ UNCHANGED cycleVars

NextF ==
    \/ Call_renderPublications
    \/ Call_formatAuthors
    \/ Call_PF_authors
    \/ Call_createPublicationItem
    \/ Call_PF_item

SpecF == InitF /\ [][NextF]_vars

(***************************************************************************)
(* Properties.                                                             *)
(***************************************************************************)
\* the citation counts of the argument of calculateHIndex, a missing count
\* read as 0, and no counts for a missing list
InputCounts ==
    IF hInput.t # "array" THEN <<>>
    ELSE [i \in 1..Len(hInput.items) |->
            LET c == Get(Get(hInput.items[i], "metadata"), "citation_count")
            IN  IF c.t = "number" THEN c.n ELSE 0]
\* the number of papers with at least h citations
AtLeast(c, h) == Cardinality({j \in DOMAIN c : c[j] >= h})
\* the i-th largest of the counts c
IthLargest(c, i) ==
    CHOOSE v \in {c[j] : j \in DOMAIN c} :
        /\ Cardinality({j \in DOMAIN c : c[j] > v}) < i
        /\ Cardinality({j \in DOMAIN c : c[j] >= v}) >= i
\* the largest element of a non-empty set of numbers
MaxOf(S) == CHOOSE m \in S : \A x \in S : x <= m

\* C1: calculateHIndex returns the largest rank i (1-based) whose i-th largest
\* citation count is at least i, which is the largest h such that at least h
\* papers have at least h citations; 0 for an empty or missing list; and 2 for
\* the counts 13, 5, 2.
C1_HIndex ==
    hCalled =>
        /\ hOutput = MaxOf({0} \cup {i \in 1..Len(InputCounts) :
                                       IthLargest(InputCounts, i) >= i})
        /\ hOutput = MaxOf({h \in 0..Len(InputCounts) : AtLeast(InputCounts, h) >= h})
        /\ (InputCounts = <<>> => hOutput = 0)
        /\ (InputCounts = <<13, 5, 2>> => hOutput = 2)

C1_Witness == hCalled /\ InputCounts = <<13, 5, 2>> /\ hOutput = 2

\* C2: when the script finds a cache entry younger than 24 hours at page
\* load, no network call of the page view is issued before the list has been
\* rendered: the first render precedes the first fetch, in every script.
C2_RenderBeforeFetch ==
    (hist.entry.has /\ hist.entry.age < cacheExpiry) => hist.firstCall # "beforeRender"

C2_Witness ==
    /\ variant = "InspirePublications"
    /\ hist.entry.has /\ hist.entry.age < cacheExpiry
    /\ hist.firstCall = "afterRender"
    /\ ListRendered(ui)

\* C3 as stated: with a cache entry present at page load, no network call is
\* issued when its age is at most 24 hours, and exactly one refresh sequence,
\* issued after the render, when it is older; in every script.
C3_Original ==
    /\ (hist.entry.has /\ hist.entry.age <= cacheExpiry) => hist.netCalls = 0
    /\ (hist.entry.has /\ hist.entry.age > cacheExpiry) =>
           (hist.loadStarted = 1 /\ hist.firstCall # "beforeRender")

\* C3 as amended: PublicationsFetcher issues no network call at a page load
\* that finds an entry of age at most 24 hours (the boundary included), and
\* starts exactly one refresh sequence, after rendering the entry, when the
\* entry is older; InspirePublications, the functional script and
\* PublicationsDisplay start one fetch sequence at every page load that finds
\* an entry, whatever its age.
C3_RefreshOnlyIfStale ==
    /\ (variant = "PublicationsFetcher" /\ hist.entry.has
          /\ hist.entry.age <= cacheExpiry) => hist.netCalls = 0
    /\ (variant = "PublicationsFetcher" /\ hist.entry.has
          /\ hist.entry.age > cacheExpiry) =>
           (hist.loadStarted = 1 /\ hist.firstCall = "afterRender")
    /\ (variant \in {"InspirePublications", "Functional", "PublicationsDisplay"}
          /\ hist.entry.has) => hist.loadStarted = 1

C3_Witness ==
    /\ variant = "PublicationsFetcher"
    /\ hist.entry.has /\ hist.entry.age > cacheExpiry
    /\ hist.loadStarted = 1 /\ hist.netCalls = 2

\* the page view has no fetch sequence in flight: the cycle has ended
CycleEnded == variant # "none" /\ seqs = {}

\* C4 as stated: a page load that finds no cache entry and whose fetch
\* sequence fails ends with the hardcoded fallback dataset rendered: the list
\* shows the fallback publications and the statistics panel 3 publications,
\* 20 citations, h-index 2.
C4_FallbackRendered ==
    (CycleEnded /\ hist.noCache /\ hist.failures > 0 /\ hist.clicks = 0) =>
        /\ ui.list = ItemsShown(FallbackPapers)
        /\ ui.stats = StatsShown(Len(FallbackCounts), Num(FallbackCitations),
                                 Num(FallbackHIndex))

\* C5 as stated: whatever the outcomes of the calls and the content of the
\* cache, no exception leaves the cycle and the cycle ends with the list and
\* the statistics panel rendered.
C5_NeverFatal ==
    CycleEnded => (~hist.rejected /\ ListRendered(ui) /\ StatsRendered(ui))

\* a step in which a fetch sequence ends by a failed call, in a page view that
\* found a cache entry
FailWithEntry == hist.entry.has /\ hist'.failures = hist.failures + 1

StoredTimestamp == Get(JsonParse(getItem(KeyOf(rt.lib))), "timestamp")
\* ts is a number between the start of the write and the read
InBounds(ts) == ts.t = "number" /\ rt.start <= ts.n /\ ts.n <= rt.readAt

PublicationKeys == {PubKey, PUBLICATIONS_CACHE_KEY}
\* item is the JSON text of an object {data, timestamp} whose timestamp is a
\* number
IsEntry(item) ==
    /\ item.t = "text"
    /\ JsonParse(item).t = "object"
    /\ DOMAIN JsonParse(item).f = {"data", "timestamp"}
    /\ Get(JsonParse(item), "timestamp").t = "number"
\* v is a combined record: its publications are a list
IsCombined(v) == Get(v, "publications").t = "array"
\* v is a body of the literature endpoint
IsLiteratureBody(v) == v.t = "object" /\ DOMAIN v.f \subseteq {"hits"}

\* C8 as stated: in every state, every value stored under a publication cache
\* key is the JSON text of an object {data, timestamp} with data the record
\* cached (an object) and timestamp a number, whichever script wrote it.
C8_Original ==
    \A k \in PublicationKeys :
        getItem(k).t = "text" =>
            (IsEntry(getItem(k)) /\ Get(JsonParse(getItem(k)), "data").t = "object")

\* C8 as amended: every write under a publication cache key by
\* PublicationsFetcher or PublicationsDisplay (key inspire-publications-1908124)
\* stores the JSON text of {data, timestamp} with data the combined record and
\* timestamp the time of the write; every write by the functional script (key
\* publications_cache_v1) stores {data, timestamp} with data the body of the
\* literature response; every write by InspirePublications under
\* inspire-publications-1908124 stores the body of the literature response
\* itself, with no data and no timestamp property, and the time goes under the
\* key inspire-last-updated-1908124.
C8_StoredEntries ==
    [][\A k \in PublicationKeys :
         storage'[k] # storage[k] =>
            CASE variant \in {"PublicationsFetcher", "PublicationsDisplay"} ->
                   /\ k = PubKey
                   /\ IsEntry(storage'[k])
                   /\ IsCombined(Get(JsonParse(storage'[k]), "data"))
                   /\ Get(JsonParse(storage'[k]), "timestamp") = Num(now)
              [] variant = "Functional" ->
                   /\ k = PUBLICATIONS_CACHE_KEY
                   /\ IsEntry(storage'[k])
                   /\ IsLiteratureBody(Get(JsonParse(storage'[k]), "data"))
                   /\ Get(JsonParse(storage'[k]), "timestamp") = Num(now)
              [] variant = "InspirePublications" ->
                   /\ k = PubKey
                   /\ IsLiteratureBody(JsonParse(storage'[k]))
                   /\ storage'[UpdatedKey] # storage[UpdatedKey] =>
                          JsonParse(storage'[UpdatedKey]) = Num(now)]_vars

C8_Witness ==
    /\ variant = "PublicationsDisplay" /\ loads = 1
    /\ IsEntry(getItem(PubKey))
    /\ Get(JsonParse(getItem(PubKey)), "data") =
           JsonValue(CombinedRecord(LiteratureBody(1, "ok"), AuthorBody(1, "ok")))
    /\ Get(JsonParse(getItem(PubKey)), "timestamp") = Num(now)

\* the citation counts and the statistics of the source src: 0 is the
\* hardcoded fallback, k > 0 the fetch sequence k (a cache snapshot is the
\* data of the sequence that wrote it)
SourceCounts(src) ==
    IF src = 0 THEN FallbackCounts ELSE CitationCountsOf(PapersOf(src))
SourceStats(src) ==
    IF src = 0
    THEN StatsShown(Len(FallbackCounts), Num(FallbackCitations), Num(FallbackHIndex))
    ELSE StatsShown(Length(PapersOf(src)), Get(SummaryOf(src), "citation_count"),
                    Get(SummaryOf(src), "h_index"))

\* C9 as stated: whenever the list and the statistics panel are rendered, the
\* list and the statistics shown come from one and the same source (one cache
\* snapshot, one complete fetch sequence, or the hardcoded fallback), for
\* every interleaving of the page-load sequence with manual refreshes.
C9_OneSource ==
    (ui.list.t = "items" /\ ui.stats.t = "stats") =>
        \E src \in 0..MaxSeqs :
            ui.list.cits = SourceCounts(src) /\ ui.stats = SourceStats(src)

\* C10 as stated: at every moment of a page view at most one foreground fetch
\* sequence and at most one background refresh sequence are in flight.
C10_OneInFlight ==
    /\ Cardinality({s \in seqs : Foreground(s)}) <= 1
    /\ Cardinality({s \in seqs : Background(s)}) <= 1

\* the localStorage keys the page-load handler of the script v reads
KeysReadBy(v) ==
    CASE v \in {"PublicationsFetcher", "PublicationsDisplay"} -> {PubKey}
      [] v = "InspirePublications" -> {PubKey, AuthorKey}
      [] v = "Functional" -> {PUBLICATIONS_CACHE_KEY}
      [] OTHER -> {}

\* C11 as stated: each script owns its cache keys: an item a script reads at
\* page load was written by that same script, and a script never overwrites
\* an item another script wrote.
C11_OwnKeys ==
    [][/\ loads' = loads + 1 =>
            \A k \in KeysReadBy(variant') :
                storage[k].t = "text" => hist.writers[k] = variant'
       /\ \A k \in Keys :
            (storage'[k] # storage[k] /\ hist.writers[k] # "none")
                => hist.writers[k] = variant]_vars

\* the names of the author list given to the formatting function, a missing
\* name read as the empty text
ArgNames ==
    IF fx.arg.t # "array" THEN <<>>
    ELSE [i \in DOMAIN fx.arg.items |-> TextOf(Get(fx.arg.items[i], "full_name"))]
\* the first n elements of s
Prefix(s, n) == SubSeq(s, 1, IF Len(s) < n THEN Len(s) ELSE n)
\* the author string that shows the names s, with the suffix or not (the
\* markup around a name left aside)
RECURSIVE Listed(_)
Listed(s) ==
    IF s = <<>> THEN <<>>
    ELSE IF Len(s) = 1 THEN <<[text |-> s[1]]>>
    ELSE <<[text |-> s[1]], [sep |-> ", "]>> \o Listed(Tail(s))
\* the pieces of the output, the markup around a name left aside
Plain(out) ==
    [i \in DOMAIN out |->
        IF "strong" \in DOMAIN out[i] THEN [text |-> out[i].text] ELSE out[i]]

\* C12: for an author list of more than 5 entries the author string is the
\* first 5 names in their order, separated by ", ", followed by " et al." at
\* the end; for a list of 1 to 5 entries it is all the names in their order,
\* separated by ", ", with no suffix added; in formatAuthors of the functional
\* script and in PublicationsFetcher.renderPublications alike.
C12_AuthorString ==
    (fx.done /\ fx.op \in {"formatAuthors", "PF_authors"} /\ Len(ArgNames) >= 1) =>
        IF Len(ArgNames) > 5
        THEN Plain(fx.out) = Listed(Prefix(ArgNames, 5)) \o <<[lit |-> " et al."]>>
        ELSE Plain(fx.out) = Listed(ArgNames)

C12_Witness ==
    /\ fx.done /\ fx.op = "formatAuthors" /\ Len(ArgNames) = 6
    /\ ArgNames[6] = "Chaussidon, E." /\ ArgNames[1] = "Moneti, A."
    /\ Len(fx.out) = 10 /\ fx.out[10] = [lit |-> " et al."]

\* the record given to the item function has an identifier under the
\* property k of its metadata (arxiv_eprints or dois)
HasId(k) == First(Get(Get(fx.arg, "metadata"), k)).t = "object"
\* the kinds of the links of the rendered item
LinkKinds == {fx.out.links[i].kind : i \in DOMAIN fx.out.links}

\* C13 as stated: the rendered item has the arXiv link iff the record has a
\* preprint identifier, the DOI link iff it has a DOI, and always the INSPIRE
\* link, each once; a record with neither identifier renders with exactly one
\* link, the INSPIRE link.
C13_Links ==
    (fx.done /\ fx.op \in {"createPublicationItem", "PF_item"}) =>
        /\ ("arxiv" \in LinkKinds) = HasId("arxiv_eprints")
        /\ ("doi" \in LinkKinds) = HasId("dois")
        /\ "inspire" \in LinkKinds
        /\ Len(fx.out.links) = Cardinality(LinkKinds)

\* the field k of the first publication_info entry of the record given to
\* the item function, and whether the record has it
InfoField(k) == Get(First(Get(Get(fx.arg, "metadata"), "publication_info")), k)
HasField(k) == InfoField(k).t = "string"
\* the texts taken from the record in a venue string, in order
RECURSIVE TextsIn(_)
TextsIn(pieces) ==
    IF pieces = <<>> THEN <<>>
    ELSE IF "text" \in DOMAIN Head(pieces) THEN <<Head(pieces).text>> \o TextsIn(Tail(pieces))
    ELSE TextsIn(Tail(pieces))
\* the present ones of the fields ks of the record, in order
RECURSIVE PresentFields(_)
PresentFields(ks) ==
    IF ks = <<>> THEN <<>>
    ELSE IF HasField(Head(ks)) THEN <<InfoField(Head(ks)).s>> \o PresentFields(Tail(ks))
    ELSE PresentFields(Tail(ks))
\* the venue is the literal text Preprint
IsPreprint(journal) == journal = <<[lit |-> "Preprint"]>>

\* C20 as stated: the venue string is "Preprint" when the record has no
\* journal name; otherwise it is the journal name followed, in this order, by
\* the volume, the start page and the year, each iff present; in every script.
C20_Original ==
    (fx.done /\ fx.op \in {"createPublicationItem", "PF_item"}) =>
        IF ~HasField("journal_title") THEN IsPreprint(fx.out.journal)
        ELSE TextsIn(fx.out.journal) =
                 PresentFields(<<"journal_title", "journal_volume", "page_start", "year">>)

\* C20 as amended: in PublicationsFetcher.renderPublications the venue string
\* is "Preprint" when the record has no journal name, and otherwise the
\* journal name followed, in this order, by the volume, the start page and
\* the year, each iff present.  In createPublicationItem of the functional
\* script it is "Preprint" when the record has no journal name and otherwise
\* the journal name alone: volume, start page and year are not shown.
C20_Venue ==
    /\ (fx.done /\ fx.op = "PF_item") =>
          IF ~HasField("journal_title") THEN IsPreprint(fx.out.journal)
          ELSE /\ TextsIn(fx.out.journal) =
                     PresentFields(<<"journal_title", "journal_volume", "page_start",
                                     "year">>)
               /\ Len(fx.out.journal) =
                     1 + (IF HasField("journal_volume") THEN 2 ELSE 0)
                       + (IF HasField("page_start") THEN 2 ELSE 0)
                       + (IF HasField("year") THEN 3 ELSE 0)
    /\ (fx.done /\ fx.op = "createPublicationItem") =>
          IF ~HasField("journal_title") THEN IsPreprint(fx.out.journal)
          ELSE fx.out.journal = <<[text |-> InfoField("journal_title").s]>>

C20_Witness ==
    /\ fx.done /\ fx.op = "PF_item"
    /\ fx.out.journal = <<[text |-> "Astron.Astrophys."], [lit |-> " "], [text |-> "658"],
                          [lit |-> ", "], [text |-> "A126"], [lit |-> " ("],
                          [text |-> "2022"], [lit |-> ")"]>>

\* the fetch sequence s1 has just issued its second call: in this step it went
\* from waiting for its first call to waiting for its second
IssuedSecond(s1) ==
    /\ s1 \in seqs' /\ s1.pc = "await2"
    /\ \E s0 \in seqs : s0.id = s1.id /\ s0.pc = "await1"
\* the fetch sequence s0 has just ended on the failure of its first call
FirstFailed(s0) ==
    /\ s0 \in seqs /\ s0.pc = "await1" /\ s0 \notin seqs'
    /\ hist'.failures = hist.failures + 1
\* a fetch sequence has just ended with both calls answered
Completed == loads' = loads /\ hist'.effects # hist.effects
\* a comes before b in the sequence e
Before(e, a, b) == \E i, j \in DOMAIN e : i < j /\ e[i] = a /\ e[j] = b

ArgPapers == fx.arg.f.hits.f.hits.items
KeptPapers ==
    {i \in DOMAIN ArgPapers :
        LET ts == Get(Get(ArgPapers[i], "metadata"), "titles")
        IN  ts.t = "undefined"
            \/ ts.items[1].f.title.s \notin {ExcludedTitle, PaddedTitle}}
\* the citation count of the i-th paper, a missing count read as 0
CountOf(i) ==
    LET c == Get(Get(ArgPapers[i], "metadata"), "citation_count")
    IN  IF c.t = "number" THEN c.n ELSE 0
\* the sum of the citation counts of the papers of the set S
RECURSIVE SumOver(_)
SumOver(S) ==
    IF S = {} THEN 0
    ELSE LET i == CHOOSE j \in S : TRUE IN CountOf(i) + SumOver(S \ {i})

\* C15: after renderPublications(data) of the functional script the displayed
\* publication count is the number of papers left by the filter (those whose
\* title is the excluded title removed), the displayed total citations is the
\* sum of the citation counts of exactly those papers (a missing count is 0),
\* and the displayed h-index is the h-index of those papers; the excluded
\* papers count in none of the three.
C15_DerivedStats ==
    (fx.done /\ fx.op = "renderPublications") =>
        /\ fx.out.stats.t = "stats"
        /\ fx.out.stats.pubs = Cardinality(KeptPapers)
        /\ fx.out.stats.citations = Num(SumOver(KeptPapers))
        /\ fx.out.stats.h =
              Num(MaxOf({h \in 0..Cardinality(KeptPapers) :
                           Cardinality({i \in KeptPapers : CountOf(i) >= h}) >= h}))
        /\ fx.out.list.t = "items"
        /\ Len(fx.out.list.cits) = Cardinality(KeptPapers)

C15_Witness ==
    /\ fx.done /\ fx.op = "renderPublications"
    /\ Len(ArgPapers) = 3 /\ Cardinality(KeptPapers) = 2
    /\ CountOf(1) = 5 /\ 1 \notin KeptPapers
    /\ fx.out.stats = StatsShown(2, Num(7), Num(2))

\* C16 as stated: every invocation of the cycle (a page load or a manual
\* refresh) completes, whatever the outcomes of its network calls: once every
\* call issued has resolved or rejected and no fetch sequence is in flight,
\* the loading indicator is hidden and the list and the statistics are
\* rendered.
C16_Completes ==
    CycleEnded => (~ui.loading /\ ListRendered(ui) /\ StatsRendered(ui))

\* the step just taken ends the fetch sequence s with every call answered by
\* the expected body, and with the localStorage write failing: setItem throws
\* at once or, in InspirePublications, at the first, second or third of its
\* three calls
SaveFailed(s) ==
    \/ PF_Response2(s, "ok", FALSE)
    \/ /\ Readable(Get(authorData, "metadata"))
       /\ \E n \in 0..2 : IP_Response2(s, "ok", n)
    \/ FN_Response(s, "ok", FALSE)
    \/ PD_Response2(s, "ok", FALSE)
\* the regions show the record fetched by the sequence s
FreshShown(s) ==
    /\ ui'.list = ItemsShown(PapersOf(s.id))
    /\ StatsRendered(ui') /\ ui'.stats.pubs = 2

\* C17 as stated: when setItem throws after a successful fetch, the fetched
\* record is rendered all the same (in PublicationsDisplay: by a manual
\* refresh, the only fetch it renders), the error indicator is not shown by
\* the step, no exception leaves the handler, and every localStorage item is
\* left as it was.
C17_SaveFailureSwallowed ==
    [][\A s \in seqs : SaveFailed(s) =>
          /\ (variant = "PublicationsDisplay" => s.origin = "click") => FreshShown(s)
          /\ ui'.error => ui.error
          /\ hist'.rejected = hist.rejected
          /\ storage' = storage]_vars

\* the localStorage item that holds the publication list of the running script
EntryKey == IF variant = "Functional" THEN PUBLICATIONS_CACHE_KEY ELSE PubKey
\* the publication list in the entry of the running script in st
HeldPapers(st) ==
    LET e == JsonParse(st[EntryKey])
    IN  CASE variant = "InspirePublications" -> Get(Get(e, "hits"), "hits")
          [] variant = "Functional" -> Get(Get(Get(e, "data"), "hits"), "hits")
          [] OTHER -> Get(Get(e, "data"), "publications")
\* the step just taken ends the fetch sequence s with every call answered by
\* the expected body; written and n tell how far the localStorage write went
FetchEnded(s, written, n) ==
    \/ /\ Readable(Get(s.pubs, "hits"))
       /\ PF_Response2(s, "ok", written) \/ PD_Response2(s, "ok", written)
    \/ /\ Readable(Get(authorData, "metadata"))
       /\ IP_Response2(s, "ok", n)
    \/ FN_Response(s, "ok", written)
\* st holds the entry of the running script with the list fetched by s
Holds(st, s) == st[EntryKey].t = "text" /\ HeldPapers(st) = PapersOf(s.id)
\* no step removes a localStorage item
NeverDeleted == \A k \in Keys : storage[k].t = "text" => storage'[k].t = "text"

CallsPerSequence == IF variant' = "Functional" THEN 1 ELSE 2
\* the fetch sequence s1 of PublicationsDisplay has just issued its first
\* call: its timer fired in this step
IssuedDeferred(s1) ==
    /\ s1 \in seqs' /\ s1.pc = "await1"
    /\ \E s0 \in seqs : s0.id = s1.id /\ s0.pc = "timer"
\* how far a fetch sequence has got
Rank(pc) == CASE pc = "timer" -> 0 [] pc = "await1" -> 1 [] pc = "await2" -> 2

\* C19: a fetch sequence requests each endpoint at most once and never goes
\* back to a call it has made; the step in which a call fails issues no call
\* and ends the sequence; a call is issued only by a page load, by a click on
\* the refresh button, by the timer such a load or click has set, or as the
\* second call of a sequence whose first has just succeeded.
C19_NoRetry ==
    [][/\ hist'.netCalls <= CallsPerSequence * (hist'.loadStarted + hist'.clicks)
       /\ loads' = loads =>
            /\ hist'.netCalls <= hist.netCalls + 1
            /\ \A s0 \in seqs, s1 \in seqs' :
                   s0.id = s1.id /\ s0 # s1 => Rank(s1.pc) = Rank(s0.pc) + 1
            /\ hist'.netCalls = hist.netCalls + 1 =>
                   \/ hist'.clicks = hist.clicks + 1
                   \/ \E s1 \in seqs' : IssuedSecond(s1) \/ IssuedDeferred(s1)
            /\ hist'.failures = hist.failures + 1 =>
                   /\ hist'.netCalls = hist.netCalls
                   /\ \E s0 \in seqs : seqs' = seqs \ {s0}]_vars

\* the second call of the only fetch sequence of a page view has failed and
\* the sequence has ended: two calls were made, none again
C19_Witness ==
    /\ variant \in {"PublicationsFetcher", "InspirePublications"}
    /\ seqs = {} /\ hist.failures = 1
    /\ hist.loadStarted + hist.clicks = 1
    /\ hist.netCalls = 2

\* the step just taken is the continuation of fetchData for the sequence s
\* after a call that ended with outcome o
PF_Step(s, o) == PF_Response1(s, o) \/ \E w \in BOOLEAN : PF_Response2(s, o, w)
\* this.cache, this.lastFetched and localStorage are what they were
PF_Kept == cache' = cache /\ lastFetched' = lastFetched /\ storage' = storage
\* this.cache and this.lastFetched hold the record fetched by s and the time
PF_Assigned(s) ==
    /\ cache'.t = "object" /\ Get(cache', "publications") = PapersOf(s.id)
    /\ lastFetched' = Num(now)
\* the text saveToCache stores for the record and the time the instance holds
PF_EntryText == JsonStringify(Obj([data |-> cache', timestamp |-> Num(now)]))

\* C21 as stated: a continuation of fetchData after a failed call leaves
\* this.cache, this.lastFetched and the stored entry as they were; a
\* continuation that changes any of them follows the second of two successful
\* calls and changes all three: the record, the time, and the entry holding
\* both.
C21_Original ==
    [][\A s \in seqs, o \in Outcomes : PF_Step(s, o) =>
          /\ ~Parsed(o) => PF_Kept
          /\ ~PF_Kept => /\ s.pc = "await2" /\ Parsed(o)
                         /\ PF_Assigned(s)
                         /\ storage' = setItem(storage, PubKey, PF_EntryText)]_vars

\* C21 as amended: a continuation of fetchData after a failed call leaves
\* this.cache, this.lastFetched and the stored entry as they were; a
\* continuation that changes any of them follows the second of two successful
\* calls and assigns this.cache and this.lastFetched together; the stored
\* entry then holds both, or is left as it was when setItem throws.
C21_AllOrNothing ==
    [][\A s \in seqs, o \in Outcomes : PF_Step(s, o) =>
          /\ ~Parsed(o) => PF_Kept
          /\ ~PF_Kept => /\ s.pc = "await2" /\ Parsed(o)
                         /\ PF_Assigned(s)
                         /\ \/ storage' = setItem(storage, PubKey, PF_EntryText)
                            \/ storage' = storage]_vars

\* a page view of PublicationsFetcher that loaded a stale entry and whose
\* refresh failed: the instance still holds the record and time of the entry
C21_Witness ==
    /\ variant = "PublicationsFetcher" /\ seqs = {}
    /\ hist.entry.has /\ hist.failures = 1
    /\ cache.t = "object" /\ lastFetched.t = "number"
    /\ Get(JsonParse(storage[PubKey]), "data") = cache

\* C22 as stated: in a page view of PublicationsFetcher that found an item
\* under its key (loadFromCache returned true), this.cache is a record with a
\* publication list and this.lastFetched is a number, whatever the item holds;
\* and the list is rendered or a network call has been issued.
C22_LoadedRecord ==
    (variant = "PublicationsFetcher" /\ ~hist.noCache) =>
        /\ cache.t = "object" /\ Get(cache, "publications").t = "array"
        /\ lastFetched.t = "number"
        /\ ListRendered(ui) \/ hist.netCalls > 0

\* v is a body of the literature endpoint with its result list
HasResultList(v) == Get(Get(v, "hits"), "hits").t = "array"
\* v is a body of the author endpoint with its metadata
HasMetadata(v) == Readable(Get(v, "metadata"))

\* C23 as stated: the functional script and InspirePublications overwrite a
\* cache item only with a response of the expected shape: a literature body
\* that has its hits.hits list, an author body that has its metadata.
C23_OnlyRenderable ==
    [][/\ (variant = "Functional"
             /\ storage'[PUBLICATIONS_CACHE_KEY] # storage[PUBLICATIONS_CACHE_KEY]) =>
              HasResultList(Get(JsonParse(storage'[PUBLICATIONS_CACHE_KEY]), "data"))
       /\ (variant = "InspirePublications" /\ storage'[PubKey] # storage[PubKey]) =>
              HasResultList(JsonParse(storage'[PubKey]))
       /\ (variant = "InspirePublications" /\ storage'[AuthorKey] # storage[AuthorKey]) =>
              HasMetadata(JsonParse(storage'[AuthorKey]))]_vars

(***************************************************************************)
(* The selected-citations script (src/js_publications_Version2.js, from    *)
(* line 352).  It keeps its own localStorage item, sc.store: absent, or    *)
(* the JSON text of an object that maps "arxiv:<id>" to {value, ts}.       *)
(* Each list item holds the href of its links; an href is an arXiv abs or  *)
(* pdf link with an identifier, or another link.                           *)
(***************************************************************************)
ONE_DAY == 86400000
ArxivIds == {"2101.00001", "2202.00002"}
\* `arxiv:${arxivId}`
CacheKeyOf(arxivId) == "arxiv:" \o arxivId

\* readCache: JSON.parse(localStorage.getItem(CACHE_KEY) || '{}')
readCache(item) == IF item.t = "text" THEN JsonParse(item) ELSE EmptyObj

\* writeCache: the item afterwards; written is FALSE when setItem throws
writeCache(item, obj, written) == IF written THEN JsonStringify(obj) ELSE item

\* a getCached that takes an entry of exactly one day for stale (a variant the
\* properties must reject)
getCached_strict(item, key, t) ==
    LET e == Get(readCache(item), key)
    IN  IF ~Truthy(e) THEN Null
        ELSE IF t - (IF Truthy(Get(e, "ts")) THEN Get(e, "ts").n ELSE 0) >= ONE_DAY THEN Null
        ELSE Get(e, "value")

\* getCached at time t
getCached(item, key, t) ==
    LET e == Get(readCache(item), key)
    IN  IF ~Truthy(e) THEN Null
        ELSE IF t - (IF Truthy(Get(e, "ts")) THEN Get(e, "ts").n ELSE 0) > ONE_DAY THEN Null
        ELSE Get(e, "value")

\* a setCached that writes an object holding the new entry alone (a variant
\* the properties must reject)
setCached_alone(item, key, value, t, written) ==
    writeCache(item, Obj([k \in {key} |-> Obj([value |-> value, ts |-> Num(t)])]), written)

\* setCached at time t: the item afterwards
setCached(item, key, value, t, written) ==
    LET c == readCache(item)
    IN  writeCache(item,
                   Obj([k \in DOMAIN c.f \cup {key} |->
                          IF k = key THEN Obj([value |-> value, ts |-> Num(t)])
                          ELSE c.f[k]]),
                   written)

\* extractArxivId: the identifier of the first arXiv link, or null
RECURSIVE extractArxivId(_)
extractArxivId(hrefs) ==
    IF hrefs = <<>> THEN Null
    ELSE IF Head(hrefs).arxiv THEN Str(Head(hrefs).id)
    ELSE extractArxivId(Tail(hrefs))

\* the ways the literature call for one identifier can end, and the body of
\* the ones that return JSON
SC_Outcomes == {"neterr", "status", "badjson", "nohits", "empty", "nometa", "nocount",
                "zero", "count", "text"}
SC_Record(o) ==
    CASE o = "nometa" -> EmptyObj
      [] o = "nocount" -> Obj([metadata |-> EmptyObj])
      [] o = "zero" -> Obj([metadata |-> Obj([citation_count |-> Num(0)])])
      [] o = "count" -> Obj([metadata |-> Obj([citation_count |-> Num(7)])])
      [] o = "text" -> Obj([metadata |-> Obj([citation_count |-> Str("12")])])
SC_Body(o) ==
    CASE o = "nohits" -> EmptyObj
      [] o = "empty" -> Obj([hits |-> Obj([hits |-> Arr(<<>>)])])
      [] OTHER -> Obj([hits |-> Obj([hits |-> Arr(<<SC_Record(o)>>)])])

\* fetchCitationsByArxiv after r.json(): the count, or null
countOf(data) ==
    LET hits == Get(data, "hits")
        rec == IF ~Truthy(data) THEN data
               ELSE IF ~Truthy(hits) THEN hits
               ELSE IF ~Truthy(Get(hits, "hits")) THEN Get(hits, "hits")
               ELSE First(Get(hits, "hits"))
        c == Get(Get(rec, "metadata"), "citation_count")
    IN  IF Truthy(rec) /\ Truthy(Get(rec, "metadata"))
        THEN (IF Truthy(c) THEN c ELSE Num(0))
        ELSE Null

\* fetchCitationsByArxiv: [threw, count]
fetchCitationsByArxiv(o) ==
    IF o \in {"neterr", "status", "badjson"} THEN [threw |-> TRUE, count |-> Undefined]
    ELSE [threw |-> FALSE, count |-> countOf(SC_Body(o))]

\* a list item before handleItem: whether it has a .publication-links element,
\* and the links in it
SC_Item(links, hrefs) ==
    [links |-> links, hrefs |-> hrefs, pc |-> "todo", badges |-> <<>>, calls |-> 0,
     cached |-> Undefined, count |-> Undefined, wrote |-> FALSE]
OtherLink == [arxiv |-> FALSE, id |-> ""]
ArxivLink(id) == [arxiv |-> TRUE, id |-> id]
ItemKinds ==
    {SC_Item(FALSE, <<>>), SC_Item(TRUE, <<OtherLink>>),
     SC_Item(TRUE, <<OtherLink, ArxivLink("2101.00001")>>),
     SC_Item(TRUE, <<ArxivLink("2202.00002")>>),
     SC_Item(TRUE, <<ArxivLink("2101.00001"), ArxivLink("2202.00002")>>)}
ItemLists == UNION {[1..n -> ItemKinds] : n \in 0..MaxItems}

\* the time of the page load, and the items localStorage may hold then: none,
\* or entries written by earlier page views, of several ages
SC_T0 == 2 * ONE_DAY
SC_Entry(value, age) == Obj([value |-> Num(value), ts |-> Num(SC_T0 - age)])
EntriesA == {SC_Entry(v, a) : v \in {0, 5}, a \in {0, ONE_DAY, ONE_DAY + 1}}
OldKey == "arxiv:1901.00009"
InitStores ==
    {NoItem, JsonStringify(Obj([k \in {OldKey} |-> SC_Entry(3, 0)]))}
    \cup {JsonStringify(Obj([k \in {CacheKeyOf("2101.00001")} |-> e])) : e \in EntriesA}
    \cup {JsonStringify(Obj([k \in {OldKey, CacheKeyOf("2101.00001")} |->
                               IF k = OldKey THEN SC_Entry(3, 0) ELSE e])) : e \in EntriesA}

\* a page just loaded, before the script runs; list tells whether the page has
\* the list of selected publications
SC_Page(list, items, store) ==
    [phase |-> "page", list |-> list, items |-> items, store |-> store,
     before |-> store, now |-> SC_T0, ticks |-> 0, loads |-> 1, started |-> FALSE,
     rejected |-> FALSE]

InitSC ==
    /\ sc \in {SC_Page(TRUE, items, st) : items \in ItemLists, st \in InitStores}
              \cup {SC_Page(FALSE, <<>>, st) : st \in InitStores}
    /\ HIdle /\ rt = NoRoundTrip /\ fx = NoCall /\ CycleIdle

\* handleItem up to its first await or its return, with the item as in st at
\* time t
handleItem(li, st, t) ==
    LET arxivId == extractArxivId(li.hrefs)
        cached == getCached(st, CacheKeyOf(arxivId.s), t)
    IN  IF ~li.links \/ ~Truthy(arxivId) THEN [li EXCEPT !.pc = "done"]
        ELSE IF cached.t \notin {"null", "undefined"}
        THEN [li EXCEPT !.pc = "done", !.cached = cached, !.badges = Append(@, cached)]
        ELSE [li EXCEPT !.pc = "await", !.cached = cached, !.calls = @ + 1]

\* init: items.forEach(handleItem); every handleItem runs to its first await
\* before any continuation does
SC_init ==
    /\ sc.phase = "page" /\ ~sc.started
    /\ sc' = [sc EXCEPT !.started = TRUE,
                        !.items = IF sc.list
                                  THEN [i \in DOMAIN sc.items |->
                                          handleItem(sc.items[i], sc.store, sc.now)]
                                  ELSE @]
    /\ UNCHANGED <<hInput, hOutput, hCalled, rt, fx>>
    /\ UNCHANGED cycleVars

\* a continuation that appends the badge whatever the call returned (a variant
\* the properties must reject)
SC_Response_always(i, o, written) ==
    /\ sc.phase = "page" /\ sc.started
    /\ i \in DOMAIN sc.items /\ sc.items[i].pc = "await"
    /\ written
    /\ LET li == sc.items[i]
           r == fetchCitationsByArxiv(o)
       IN  sc' = [sc EXCEPT !.items[i] = [li EXCEPT !.pc = "done", !.count = r.count,
                                                   !.badges = Append(@, r.count)]]
    /\ UNCHANGED <<hInput, hOutput, hCalled, rt, fx>>
    /\ UNCHANGED cycleVars

\* handleItem after its await: the call for item i ends with outcome o
SC_Response(i, o, written) ==
    /\ sc.phase = "page" /\ sc.started
    /\ i \in DOMAIN sc.items /\ sc.items[i].pc = "await"
    /\ LET li == sc.items[i]
           r == fetchCitationsByArxiv(o)
           key == CacheKeyOf(extractArxivId(li.hrefs).s)
       IN  IF ~r.threw /\ r.count.t = "number"
           THEN sc' = [sc EXCEPT
                         !.store = setCached(@, key, r.count, sc.now, written),
                         !.items[i] = [li EXCEPT !.pc = "done", !.count = r.count,
                                                 !.wrote = written,
                                                 !.badges = Append(@, r.count)]]
           ELSE /\ written
                /\ sc' = [sc EXCEPT !.items[i] = [li EXCEPT !.pc = "done",
                                                            !.count = r.count]]
    /\ UNCHANGED <<hInput, hOutput, hCalled, rt, fx>>
    /\ UNCHANGED cycleVars

\* time passes
SC_Tick(d) ==
    /\ sc.phase = "page" /\ sc.ticks < MaxTicks
    /\ sc' = [sc EXCEPT !.now = @ + d, !.ticks = @ + 1]
    /\ UNCHANGED <<hInput, hOutput, hCalled, rt, fx>>
    /\ UNCHANGED cycleVars

\* the page is loaded again once every handleItem has returned: the list is
\* as in the markup, localStorage stays
SC_Reload ==
    /\ sc.phase = "page" /\ sc.started /\ sc.loads < MaxLoads
    /\ \A i \in DOMAIN sc.items : sc.items[i].pc = "done"
    /\ sc' = [sc EXCEPT !.started = FALSE, !.loads = @ + 1, !.before = sc.store,
                        !.items = [i \in DOMAIN @ |-> SC_Item(@[i].links, @[i].hrefs)]]
    /\ UNCHANGED <<hInput, hOutput, hCalled, rt, fx>>
    /\ UNCHANGED cycleVars

NextSC ==
    \/ SC_init
    \/ \E i \in 1..MaxItems, o \in SC_Outcomes, w \in BOOLEAN : SC_Response(i, o, w)
    \/ \E d \in {1, ONE_DAY} : SC_Tick(d)
    \/ SC_Reload

SpecSC == InitSC /\ [][NextSC]_vars

\* the cache key of the list item li (of an item with an arXiv link)
KeyOfItem(li) == CacheKeyOf(extractArxivId(li.hrefs).s)
\* every handleItem of the page view has returned
AllHandled(p) ==
    /\ p.phase = "page" /\ p.started
    /\ \A i \in DOMAIN p.items : p.items[i].pc = "done"
\* the fetch of the list item li returned a number
Counted(li) == li.count.t = "number"
\* the entries of the stored object
EntriesOf(item) == readCache(item).f
\* the step just taken is the continuation of handleItem for item i
Handled(i) ==
    /\ i \in DOMAIN sc.items /\ sc.items[i].pc = "await"
    /\ sc'.phase = "page" /\ sc'.items[i].pc = "done"

\* C24 as stated: once every handleItem has returned, the stored object holds
\* for every item whose fetch returned a number the entry arxiv:<id> with that
\* number, and every entry present at page load is still present, unchanged
\* unless an item of the page has fetched its key.
C24_Original ==
    AllHandled(sc) =>
        /\ \A i \in DOMAIN sc.items :
               Counted(sc.items[i]) =>
                   /\ KeyOfItem(sc.items[i]) \in DOMAIN EntriesOf(sc.store)
                   /\ Get(EntriesOf(sc.store)[KeyOfItem(sc.items[i])], "value")
                          = sc.items[i].count
        /\ \A k \in DOMAIN EntriesOf(sc.before) :
               /\ k \in DOMAIN EntriesOf(sc.store)
               /\ (\A i \in DOMAIN sc.items :
                       Counted(sc.items[i]) => KeyOfItem(sc.items[i]) # k) =>
                      EntriesOf(sc.store)[k] = EntriesOf(sc.before)[k]

\* C24 as amended: the continuation of handleItem for an item whose fetch
\* returned a number, when setItem does not throw, sets the entry arxiv:<id>
\* to that number and the time and leaves every other entry as it was,
\* whatever the other items have done in between; any other continuation
\* leaves the stored object as it was.  So once every handleItem has returned
\* the entry of every such item exists and holds the number of the last such
\* fetch for its identifier, and every entry present at page load is still
\* present.
C24_NoLostUpdate ==
    [][\A i \in 1..MaxItems : Handled(i) =>
          /\ IF Counted(sc'.items[i]) /\ sc'.items[i].wrote
             THEN /\ DOMAIN EntriesOf(sc'.store)
                        = DOMAIN EntriesOf(sc.store) \cup {KeyOfItem(sc.items[i])}
                  /\ \A k \in DOMAIN EntriesOf(sc'.store) :
                         EntriesOf(sc'.store)[k] =
                             IF k = KeyOfItem(sc.items[i])
                             THEN Obj([value |-> sc'.items[i].count, ts |-> Num(sc.now)])
                             ELSE EntriesOf(sc.store)[k]
             ELSE sc'.store = sc.store
          /\ AllHandled(sc') =>
                /\ \A j \in DOMAIN sc'.items :
                       (Counted(sc'.items[j]) /\ sc'.items[j].wrote) =>
                           \E m \in DOMAIN sc'.items :
                               /\ Counted(sc'.items[m]) /\ sc'.items[m].wrote
                               /\ KeyOfItem(sc'.items[m]) = KeyOfItem(sc'.items[j])
                               /\ Get(EntriesOf(sc'.store)[KeyOfItem(sc'.items[j])], "value")
                                      = sc'.items[m].count
                /\ DOMAIN EntriesOf(sc'.before) \subseteq DOMAIN EntriesOf(sc'.store)]_vars

\* two items with different identifiers were fetched at the same time, both
\* fetches returned a number and both writes went through: the stored object
\* holds both entries next to the one it held at page load
C24_Witness ==
    /\ AllHandled(sc) /\ Len(sc.items) = 2
    /\ \A i \in 1..2 : Counted(sc.items[i]) /\ sc.items[i].wrote /\ sc.items[i].calls = 1
    /\ KeyOfItem(sc.items[1]) # KeyOfItem(sc.items[2])
    /\ DOMAIN EntriesOf(sc.before) = {OldKey}
    /\ DOMAIN EntriesOf(sc.store) = {OldKey, KeyOfItem(sc.items[1]), KeyOfItem(sc.items[2])}

\* a numeric count was obtained for the list item li: from a fresh entry of
\* the stored object, or from a call that found a record
Obtained(li) == li.cached.t = "number" \/ Counted(li)
\* the count obtained for the list item li
ObtainedCount(li) == IF li.cached.t = "number" THEN li.cached ELSE li.count

\* C25: a list item carries at most one badge, and carries it only when a
\* numeric count was obtained for it (a fresh stored entry, 0 included, or a
\* call that found a record), the badge showing that count; an item without an
\* arXiv link, or whose call failed or found no record, ends with no badge and
\* without a write, the stored object changes only in the continuation of an
\* item whose call returned a number, and no handleItem rejects
C25_BadgeOnlyWithCount ==
    [][sc'.phase = "page" =>
         /\ ~sc'.rejected
         /\ \A i \in DOMAIN sc'.items :
              LET li == sc'.items[i]
              IN  /\ Len(li.badges) <= 1
                  /\ li.badges # <<>> =>
                         (Obtained(li) /\ li.badges = <<ObtainedCount(li)>>)
                  /\ (li.pc = "done" /\ ~Obtained(li)) =>
                         (li.badges = <<>> /\ ~li.wrote)
                  /\ (Handled(i) /\ ~Counted(li)) => sc'.store = sc.store
         /\ sc'.store # sc.store =>
                \E i \in DOMAIN sc.items : Handled(i) /\ Counted(sc'.items[i])]_vars

\* every case of C25 on one page: an item without an arXiv link and an item
\* whose call found no record, both without a badge and with the stored object
\* as it was
C25_Witness ==
    /\ AllHandled(sc) /\ Len(sc.items) = 2
    /\ ~Truthy(extractArxivId(sc.items[1].hrefs)) /\ sc.items[1].badges = <<>>
    /\ sc.items[2].calls = 1 /\ sc.items[2].count.t = "null"
    /\ sc.items[2].badges = <<>>
    /\ sc.store = sc.before

\* a badge showing 0 from a fresh stored entry next to a badge from a call
C25_WitnessZero ==
    /\ AllHandled(sc) /\ Len(sc.items) = 2
    /\ sc.items[1].calls = 0 /\ sc.items[1].badges = <<Num(0)>>
    /\ sc.items[2].calls = 1 /\ sc.items[2].badges = <<Num(7)>>

\* the entry stored under the key of the list item li when the page's script
\* starts, and its age then
StoredEntry(p, li) == Get(readCache(p.store), KeyOfItem(li))
AgeOf(p, li) == p.now - Get(StoredEntry(p, li), "ts").n
FreshEntry(p, li) ==
    /\ KeyOfItem(li) \in DOMAIN EntriesOf(p.store)
    /\ AgeOf(p, li) <= ONE_DAY
\* the list item li reaches getCached
Looked(li) == li.links /\ Truthy(extractArxivId(li.hrefs))

\* C26: for an item that reaches getCached, getCached returns the stored value
\* exactly when an entry exists under its key and is at most 24 hours old,
\* and null otherwise; handleItem issues a request exactly when it returned
\* null
C26_FreshOrFetch ==
    [][SC_init =>
         \A i \in DOMAIN sc.items :
            LET li == sc.items[i]
                after == sc'.items[i]
            IN  IF sc.list /\ Looked(li)
                THEN /\ IF FreshEntry(sc, li)
                        THEN after.cached = Get(StoredEntry(sc, li), "value")
                        ELSE after.cached = Null
                     /\ after.calls = 1 <=> after.cached = Null
                     /\ after.calls = 0 <=> after.badges = <<after.cached>>
                     /\ after.calls \in {0, 1}
                ELSE after.calls = 0]_vars

\* an entry of exactly 24 hours is served without a request, next to an item
\* without entry that issues one
C26_Witness ==
    /\ sc.phase = "page" /\ sc.started /\ Len(sc.items) = 2
    /\ Looked(sc.items[1]) /\ FreshEntry(sc, sc.items[1])
    /\ AgeOf(sc, sc.items[1]) = ONE_DAY
    /\ sc.items[1].calls = 0 /\ sc.items[1].cached.t = "number"
    /\ sc.items[2].pc = "await" /\ sc.items[2].cached = Null
    /\ sc.items[2].calls = 1

\* an entry older than 24 hours is not served: a request is issued
C26_WitnessStale ==
    /\ sc.phase = "page" /\ sc.started /\ Len(sc.items) >= 1
    /\ Looked(sc.items[1])
    /\ KeyOfItem(sc.items[1]) \in DOMAIN EntriesOf(sc.before)
    /\ sc.items[1].pc = "await" /\ sc.items[1].calls = 1

(***************************************************************************)
(* The counters of the functional script (src/unnamed/part_003): the       *)
(* globals totalPublications, totalCitations and hIndex over the renders   *)
(* of one page view.  fx holds the counters, the data of the last render   *)
(* and the number of renders.                                              *)
(***************************************************************************)
\* let totalPublications = 0; let totalCitations = 0; let hIndex = 0
ZeroCounters == [totalPublications |-> 0, totalCitations |-> 0, hIndex |-> 0]

\* the index of the first paper without readable metadata, or 0
FirstUnreadable(papers) ==
    LET bad == {i \in DOMAIN papers : ~Readable(Get(papers[i], "metadata"))}
    IN  IF bad = {} THEN 0 ELSE CHOOSE i \in bad : \A j \in bad : i <= j

\* a render that adds the citations to the total it finds (a variant the
\* properties must reject)
FN_counters_accumulate(g, data) ==
    IF \/ ~Truthy(data)
       \/ ~Truthy(Get(data, "hits"))
       \/ ~Truthy(Get(Get(data, "hits"), "hits"))
    THEN [g |-> g, threw |-> FALSE]
    ELSE LET filteredPapers == Arr(FilterPapers(Get(Get(data, "hits"), "hits").items))
         IN  [g |-> [totalPublications |-> Length(filteredPapers),
                     totalCitations |-> g.totalCitations
                                        + SumSeq(CitationCountsOf(filteredPapers)),
                     hIndex |-> calculateHIndex(filteredPapers)],
              threw |-> FALSE]

\* renderPublications, on the counters g: the counters afterwards, and
\* whether the render threw
FN_counters(g, data) ==
    IF \/ ~Truthy(data)
       \/ ~Truthy(Get(data, "hits"))
       \/ ~Truthy(Get(Get(data, "hits"), "hits"))
    THEN [g |-> g, threw |-> FALSE]
    ELSE LET hits == Get(Get(data, "hits"), "hits")
             filteredPapers == Arr(FilterPapers(hits.items))
             bad == FirstUnreadable(filteredPapers.items)
         IN  IF hits.t # "array" THEN [g |-> g, threw |-> TRUE]
             ELSE IF bad # 0
             THEN [g |-> [g EXCEPT
                            !.totalPublications = Length(filteredPapers),
                            !.totalCitations =
                                SumSeq(CitationCountsOf(
                                    Arr(SubSeq(filteredPapers.items, 1, bad - 1))))],
                   threw |-> TRUE]
             ELSE [g |-> [totalPublications |-> Length(filteredPapers),
                          totalCitations |-> SumSeq(CitationCountsOf(filteredPapers)),
                          hIndex |-> calculateHIndex(filteredPapers)],
                   threw |-> FALSE]

\* the data a render may be given: bodies with up to MaxRendered papers, each
\* with or without a citation count, some with the excluded title, some
\* without metadata, and a body without result list
CountedPapers ==
    {Obj([metadata |-> Obj([titles |-> Arr(<<Obj([title |-> Str(t)])>>),
                            citation_count |-> c])]) :
        t \in {ExcludedTitle, "The DESI survey"},
        c \in {Undefined, Num(0), Num(2), Num(5)}}
    \cup {EmptyObj}
CounterInputs ==
    {Obj([hits |-> Obj([hits |-> Arr(s)])]) :
        s \in UNION {[1..n -> CountedPapers] : n \in 0..MaxRendered}}
    \cup {EmptyObj}

InitC ==
    /\ fx = [op |-> "renders", g |-> ZeroCounters, last |-> Undefined,
             first |-> Undefined, n |-> 0, threw |-> FALSE]
    /\ HIdle /\ rt = NoRoundTrip /\ sc = NoPage /\ CycleIdle

\* the handler renders the data of the cache entry, when there is one
RenderCached(data) ==
    /\ fx.op = "renders" /\ fx.n = 0
    /\ LET r == FN_counters(fx.g, data)
       IN  fx' = [fx EXCEPT !.g = r.g, !.threw = r.threw, !.last = data,
                            !.first = data, !.n = 1]
    /\ UNCHANGED <<hInput, hOutput, hCalled, rt, sc>>
    /\ UNCHANGED cycleVars

\* the handler renders the data fetched, after the render of the cache entry
\* or without one
RenderFetched(data) ==
    /\ fx.op = "renders" /\ fx.n \in {0, 1} /\ ~fx.threw
    /\ LET r == FN_counters(fx.g, data)
       IN  fx' = [fx EXCEPT !.g = r.g, !.threw = r.threw, !.last = data, !.n = 2]
    /\ UNCHANGED <<hInput, hOutput, hCalled, rt, sc>>
    /\ UNCHANGED cycleVars

NextC ==
    \/ \E data \in CounterInputs : RenderCached(data)
    \/ \E data \in CounterInputs : RenderFetched(data)

SpecC == InitC /\ [][NextC]_vars

\* C27: after any sequence of renders the counters totalPublications,
\* totalCitations and hIndex are those a single render of the last data gives
\* on a page just loaded: they depend on the data of the last render alone
C27_LastRenderOnly ==
    (fx.op = "renders" /\ fx.n > 0) =>
        fx.g = FN_counters(ZeroCounters, fx.last).g

\* the part of C27 about one and the same data: a second render of the data
\* of the first leaves the counters as the first render left them
C27_SameDataTwice ==
    [][(fx.op = "renders" /\ fx.n = 1 /\ fx'.n = 2 /\ fx'.last = fx.last) =>
          fx'.g = fx.g]_vars

\* two renders of the same data with citations
C27_Witness ==
    /\ fx.op = "renders" /\ fx.n = 2 /\ fx.last = fx.first
    /\ fx.g.totalPublications = 2 /\ fx.g.totalCitations = 7

\* the sequence s of PublicationsDisplay awaits its author call after a
\* literature call that returned a result list
PD_Awaiting(s) ==
    /\ variant = "PublicationsDisplay" /\ s \in seqs /\ s.pc = "await2"
    /\ Readable(Get(s.pubs, "hits"))
\* the step just taken ends the sequence s without both calls having
\* succeeded
PD_FailedStep(s) ==
    \/ \E o \in Outcomes : PD_Response1(s, o) /\ ~Parsed(o)
    \/ \E o \in Outcomes, w \in BOOLEAN :
          PD_Response2(s, o, w) /\ (o # "ok" \/ ~Readable(Get(s.pubs, "hits")))
\* the text PublicationsDisplay stores for the sequence s
PD_EntryText(s) ==
    JsonStringify(Obj([data |-> CombinedRecord(s.pubs, AuthorBody(s.id, "ok")),
                       timestamp |-> Num(now)]))
\* the regions other than the label, and the storage items other than the
\* entry of PublicationsDisplay
PD_Frame ==
    /\ ui' = ui
    /\ \A k \in Keys \ {PubKey} : storage'[k] = storage[k]
PD_Refreshed(s) ==
    /\ ui'.list = ItemsShown(Get(Get(s.pubs, "hits"), "hits"))
    /\ ui'.stats = StatsShown(Length(Get(Get(s.pubs, "hits"), "hits")),
                              Get(SummaryOf(s.id), "citation_count"),
                              Get(SummaryOf(s.id), "h_index"))
    /\ ~ui'.loading
    /\ \A k \in Keys \ {PubKey} : storage'[k] = storage[k]

\* C28 as stated: a successful manual refresh always leaves the fetched data
\* in the cache entry
C28_Original ==
    [][\A s \in seqs, w \in BOOLEAN :
          (PD_Awaiting(s) /\ s.origin = "click" /\ PD_Response2(s, "ok", w)) =>
              storage'[PubKey] = PD_EntryText(s)]_vars

\* C28: in PublicationsDisplay a successful fetch not started by the button
\* leaves every region of the page as it was and changes at most the cache
\* entry; a successful fetch started by the button shows the fetched list
\* and statistics and hides the loading indicator; either stores the fetched
\* record with the time of the write, unless setItem throws, and then the
\* entry stays as it was; a failed fetch not started by the button changes
\* neither the page nor localStorage
C28_FrameEffects ==
    [][\A s \in seqs :
          /\ \A w \in BOOLEAN :
                (PD_Awaiting(s) /\ PD_Response2(s, "ok", w)) =>
                    /\ s.origin # "click" => PD_Frame
                    /\ s.origin = "click" => PD_Refreshed(s)
                    /\ storage'[PubKey] =
                           IF w THEN PD_EntryText(s) ELSE storage[PubKey]
          /\ (variant = "PublicationsDisplay" /\ s.origin # "click"
                 /\ PD_FailedStep(s)) =>
                (ui' = ui /\ storage' = storage)]_vars

\* a page view whose page-load fetch and manual refresh have both ended
\* without a failed call: the refreshed list is shown, both indicators are
\* hidden and the cache entry is the script's own
C28_Witness ==
    /\ variant = "PublicationsDisplay" /\ seqs = {}
    /\ hist.clicks = 1 /\ hist.failures = 0
    /\ storage[PubKey].t = "text"
    /\ ui.list.t = "items" /\ ~ui.loading /\ ~ui.error
    /\ hist.writers[PubKey] = "PublicationsDisplay"

\* the step just taken is a page load that found a well-formed cache entry
\* and displayed a list
CacheDisplayed ==
    /\ loads' = loads + 1
    /\ hist'.entry.has /\ ListRendered(ui')
\* the time stored with the entry the page load found
FetchedAt == now - hist'.entry.age
\* the step just taken, within a page view that displayed its cache entry,
\* put a new time on the label
LabelRenewed ==
    /\ loads' = loads /\ hist.entry.has
    /\ ui'.label.t = "time" /\ ui'.label # ui.label
\* the step just taken ended a fetch sequence whose calls all succeeded
FreshRendered ==
    /\ \E s \in seqs : s \notin seqs'
    /\ hist'.failures = hist.failures
    /\ ListRendered(ui') /\ ui'.list.t = "items"

\* C29: a page load that displays the data of the cache entry puts on the
\* last-updated label the time stored with the entry, the time the data was
\* fetched, and not the time of the page load; within that page view the
\* label takes a new time only in a step that renders freshly fetched data
C29_LabelIsFetchTime ==
    [][/\ CacheDisplayed => ui'.label = TimeShown(FetchedAt, FALSE)
       /\ LabelRenewed => FreshRendered]_vars

====
